---- MODULE Spec2Model ----
(***************************************************************************)
(* A model of tusq, a transaction-pooling proxy for the PostgreSQL wire    *)
(* protocol: the frame parser (src/src/proto.rs), the framed connection    *)
(* and the session driver (src/src/core.rs), the pool manager and the pool *)
(* registry (src/src/pool.rs) and the accept loop and shutdown handling of *)
(* the main process (src/src/main.rs).                                     *)
(*                                                                         *)
(* Bytes are integers 0..255.  Offsets inside a buffer are 0-based as in   *)
(* the source; a buffer is a TLA+ sequence, so byte i of the source is     *)
(* buffer[i + 1] here.                                                     *)
(***************************************************************************)
EXTENDS Integers, Sequences, FiniteSets, TLC

(***************************************************************************)
(* Bounds of the model.                                                    *)
(***************************************************************************)
MaxClientFrames == 2  \* frames sent by all clients together
MaxServerFrames == 1  \* frames sent by all backends together
MaxTimeouts == 1      \* writes that run into their timeout
MaxSignals == 2       \* SIGTERM/SIGINT deliveries
MaxReloads == 1       \* successful SIGHUP reloads

Sessions == 1..2      \* the clients that may connect
Listener == 0         \* the accept loop, as a holder of a wait-group Worker
ConnIds == 1..2       \* the upstream connections that may be dialled
Databases == {"a", "b"}
PoolIds == 1..Cardinality(Databases)
PoolSizes == {1, 2}   \* values of pool_size a configuration file may carry

(***************************************************************************)
(* Bytes and frames of the wire protocol.                                  *)
(***************************************************************************)
TagQ == 81  \* 'Q'
TagX == 88  \* 'X'
TagZ == 90  \* 'Z'
TagI == 73  \* 'I'
TagE == 69  \* 'E'
TagR == 82  \* 'R'
TagS == 83  \* 'S'

Query == <<TagQ, 0, 0, 0, 5, 0>>           \* Query with the empty string
Terminate == <<TagX, 0, 0, 0, 4>>
Sync == <<83, 0, 0, 0, 4>>                 \* 'S'
ReadyForQueryIdle == <<TagZ, 0, 0, 0, 5, TagI>>
ReadyForQueryInTx == <<TagZ, 0, 0, 0, 5, 84>>   \* status 'T'
EmptyQueryResponse == <<TagI, 0, 0, 0, 4>>

ClientFrames == {Query, Terminate, Sync}

\* Frames of a backend's answer to the startup message.
AuthenticationOk == <<TagR, 0, 0, 0, 8, 0, 0, 0, 0>>
ParameterStatus == <<TagS, 0, 0, 0, 8, 97, 0, 49, 0>>   \* key "a", value "1"
BackendKeyData == <<75, 0, 0, 0, 12, 0, 0, 0, 1, 0, 0, 0, 2>>   \* 'K'
GreetingFrames == {AuthenticationOk, ParameterStatus, BackendKeyData, ReadyForQueryIdle}
AuthenticationCleartextPassword == <<TagR, 0, 0, 0, 8, 0, 0, 0, 3>>
AuthenticationMD5Password == <<TagR, 0, 0, 0, 12, 0, 0, 0, 5, 1, 2, 3, 4>>
AuthenticationKerberosV5 == <<TagR, 0, 0, 0, 8, 0, 0, 0, 2>>
ErrorResponse == <<TagE, 0, 0, 0, 5, 0>>   \* with no field
ParameterStatusB == <<TagS, 0, 0, 0, 8, 98, 0, 50, 0>>  \* key "b", value "2"
ServerFrames == {ReadyForQueryIdle, ReadyForQueryInTx, EmptyQueryResponse}

Min(a, b) == IF a <= b THEN a ELSE b

(***************************************************************************)
(* usize arithmetic.  A declared length is read as an i32 and cast to      *)
(* usize; a negative i32 v becomes 2^64 + v.  Such a value is kept here as *)
(* the negative number v, so that subtraction is plain subtraction and a   *)
(* negative operand of min is the larger one.                              *)
(***************************************************************************)
USub(a, b) == a - b
UMin(x, r) == IF r < 0 THEN x ELSE Min(x, r)

\* BigEndian::read_i32 of the four bytes at 0-based offset off
ReadI32(buffer, off) ==
    LET b1 == buffer[off + 1]
        hi == IF b1 >= 128 THEN b1 - 256 ELSE b1
    IN hi * 16777216 + buffer[off + 2] * 65536 + buffer[off + 3] * 256 + buffer[off + 4]

(***************************************************************************)
(* ProtoParser and ProtoMessage.                                           *)
(***************************************************************************)
NoType == -1    \* current_msg_type = None

NewParser ==
    [current_msg_type |-> NoType, current_msg_length |-> 0, current_msg_bytes_read |-> 0]

\* A Message whose end is the offset after its last byte.
MessageEndExclusive(tag, start, end) ==
    [kind |-> "Message", tag |-> tag, start |-> start, end |-> end + 1]

Message(tag, start, end) == [kind |-> "Message", tag |-> tag, start |-> start, end |-> end]
Partial(tag, start, end) == [kind |-> "Partial", tag |-> tag, start |-> start, end |-> end]
PartialComplete(tag, end) == [kind |-> "PartialComplete", tag |-> tag, start |-> 0, end |-> end]

msg_type(msg) == msg.tag

\* The byte of a fixed-size, zero-initialised buffer at 0-based offset i.
BufAt(buffer, i) == IF i + 1 <= Len(buffer) THEN buffer[i + 1] ELSE 0

NoChar == -1

\* A ReadyForQuery taken as the end of the transaction whatever its status byte.
transaction_type_any_status(msg, buffer) ==
    IF msg.kind = "Message" /\ msg.tag = TagZ THEN TagI ELSE NoChar

transaction_type(msg, buffer) ==
    IF msg.kind = "Message" /\ msg.tag = TagZ /\ msg.end - msg.start = 5
    THEN BufAt(buffer, msg.start + 5)
    ELSE NoChar

\* One pass of the while loop of parse, from `offset` to the end of the loop.
RECURSIVE ParseLoop(_, _, _, _)
ParseLoop(buffer, offset, p, msgs) ==
    IF ~(offset < Len(buffer) - 4)
    THEN [n |-> offset, parser |-> p, msgs |-> msgs]
    ELSE IF p.current_msg_type # NoType
    THEN LET remaining == USub(p.current_msg_length, p.current_msg_bytes_read)
             bytes_to_read == UMin(Len(buffer), remaining)
             left == USub(remaining, bytes_to_read)
         IN IF left = 0 /\ offset = 0
            THEN ParseLoop(buffer, offset + bytes_to_read, NewParser,
                           Append(msgs, PartialComplete(p.current_msg_type, bytes_to_read - 1)))
            ELSE ParseLoop(buffer, offset + bytes_to_read,
                           [p EXCEPT !.current_msg_bytes_read = @ + bytes_to_read],
                           Append(msgs, Partial(p.current_msg_type, offset,
                                                offset + bytes_to_read - 1)))
    ELSE LET tag == buffer[offset + 1]
             off1 == offset + 1
             length == ReadI32(buffer, off1)
             remaining == USub(length, p.current_msg_bytes_read)
             bytes_to_read == UMin(Len(buffer) - off1, remaining)
             left == USub(remaining, bytes_to_read)
         IN IF left = 0
            THEN ParseLoop(buffer, off1 + bytes_to_read, NewParser,
                           Append(msgs, Message(tag, off1 - 1, off1 + bytes_to_read - 1)))
            ELSE ParseLoop(buffer, off1 + bytes_to_read,
                           [current_msg_type |-> tag, current_msg_length |-> length,
                            current_msg_bytes_read |-> p.current_msg_bytes_read + bytes_to_read],
                           Append(msgs, Partial(tag, off1 - 1, off1 + bytes_to_read - 1)))

\* parse reporting the whole buffer as consumed.
ParseWholeBuffer(buffer, p, msgs) ==
    IF Len(buffer) < 5
    THEN [n |-> 0, parser |-> p, msgs |-> msgs]
    ELSE [ParseLoop(buffer, 0, p, msgs) EXCEPT !.n = Len(buffer)]

\* ProtoParser::parse: [n, parser, msgs] for a buffer, a parser state and a queue.
Parse(buffer, p, msgs) ==
    IF Len(buffer) < 5
    THEN [n |-> 0, parser |-> p, msgs |-> msgs]
    ELSE ParseLoop(buffer, 0, p, msgs)

(***************************************************************************)
(* PgConn, the framed connection.                                          *)
(***************************************************************************)
NewPgConn ==
    [buffer |-> <<>>, incomplete_buffer |-> <<>>, parser |-> NewParser, msgs |-> <<>>,
     is_broken |-> FALSE, is_active_transaction |-> FALSE, server_parameters |-> {}]

\* The fixed buffer after `head` has been written at its start.
Overlay(buffer, head) == head \o SubSeq(buffer, Len(head) + 1, Len(buffer))

\* A first loop that also gives up the carried bytes it has copied.
CopyCarryAndForget(conn) ==
    [conn EXCEPT !.buffer = Overlay(@, conn.incomplete_buffer), !.incomplete_buffer = <<>>]

\* The first loop of read_and_parse: the carried bytes go to the head of the buffer.
CopyCarry(conn) == [conn EXCEPT !.buffer = Overlay(@, conn.incomplete_buffer)]

\* A read_and_parse that saves as many bytes as were not parsed, but from the
\* start of the buffer.
ReadAndParseTailFromStart(conn, data) ==
    LET n_to_parse == Len(conn.incomplete_buffer) + Len(data)
        buf == Overlay(conn.buffer, conn.incomplete_buffer \o data)
        r == Parse(SubSeq(buf, 1, n_to_parse), conn.parser, conn.msgs)
    IN [n |-> r.n,
        conn |-> [conn EXCEPT !.buffer = buf, !.parser = r.parser, !.msgs = r.msgs,
                              !.incomplete_buffer = SubSeq(buf, 1, n_to_parse - r.n)]]

\* read_and_parse when the socket read returned the bytes `data` (Len(data) > 0).
ReadAndParse(conn, data) ==
    LET n_to_parse == Len(conn.incomplete_buffer) + Len(data)
        buf == Overlay(conn.buffer, conn.incomplete_buffer \o data)
        r == Parse(SubSeq(buf, 1, n_to_parse), conn.parser, conn.msgs)
    IN [n |-> r.n,
        conn |-> [conn EXCEPT !.buffer = buf, !.parser = r.parser, !.msgs = r.msgs,
                              !.incomplete_buffer = SubSeq(buf, r.n + 1, n_to_parse)]]

\* An end of file that returns the error without marking the connection.
ReadEofNotMarked(conn) == CopyCarry(conn)

\* read_and_parse when the socket read returned 0: the connection is marked broken.
ReadEof(conn) == [CopyCarry(conn) EXCEPT !.is_broken = TRUE]

(***************************************************************************)
(* What a descriptor says of the bytes it refers to (proto.rs 379-460).    *)
(***************************************************************************)
BufferSize == 8096   \* the fixed size of a connection's buffer

\* The 0-based offset of the first zero byte of the buffer at or after `from`.
RECURSIVE CStrEnd(_, _)
CStrEnd(buffer, from) ==
    IF BufAt(buffer, from) = 0 THEN from ELSE CStrEnd(buffer, from + 1)

\* The bytes of the buffer at the 0-based offsets from..(upto - 1).
BufSlice(buffer, from, upto) == [i \in 1..(upto - from) |-> BufAt(buffer, from + i - 1)]

NoParameter == <<>>

\* ProtoMessage::server_parameter: <<key, value>> of a whole 'S' frame.
server_parameter(msg, buffer) ==
    IF msg.kind = "Message" /\ msg.tag = TagS
    THEN LET key_at == msg.start + 5
             key_end == CStrEnd(buffer, key_at)
             value_at == key_end + 1
             value_end == CStrEnd(buffer, value_at)
         IN <<BufSlice(buffer, key_at, key_end), BufSlice(buffer, value_at, value_end)>>
    ELSE NoParameter

\* BTreeMap::insert on a map kept as a set of <<key, value>> pairs.
MapInsert(map, kv) == {e \in map : e[1] # kv[1]} \cup {kv}

\* ProtoMessage::authentication_type of an 'R' descriptor.
authentication_type(msg, buffer) ==
    IF msg.kind = "Message" /\ msg.tag = TagR /\ ~(msg.end - msg.start < 8)
    THEN LET auth_type == ReadI32(buffer, msg.start + 5)
         IN IF auth_type = 0 THEN "AuthOk"
            ELSE IF auth_type = 3 THEN "AuthCleartextPassword"
            ELSE IF auth_type = 5 /\ ~(BufferSize <= msg.start + 13) THEN "AuthMD5Password"
            ELSE "None"
    ELSE "None"

\* A manager that asks only whether the socket has failed.
has_broken_socket_only(conn) == conn.is_broken

has_broken(conn) == conn.is_broken \/ conn.is_active_transaction


(***************************************************************************)
(* The draining loops of the session driver (core::spawn).                 *)
(***************************************************************************)
\* An idle-point loop that takes Terminate for one more frame of the transaction.
RECURSIVE IdleInspectSkipsTerminate(_)
IdleInspectSkipsTerminate(msgs) ==
    IF msgs = <<>> THEN [outcome |-> "query", msgs |-> msgs]
    ELSE IF msg_type(Head(msgs)) \in {TagQ, TagX} THEN IdleInspectSkipsTerminate(Tail(msgs))
    ELSE [outcome |-> "panic", msgs |-> Tail(msgs)]

\* An idle-point loop that takes every tag but Terminate for the start of a
\* transaction.
RECURSIVE IdleInspectAnyTag(_)
IdleInspectAnyTag(msgs) ==
    IF msgs = <<>> THEN [outcome |-> "query", msgs |-> msgs]
    ELSE IF msg_type(Head(msgs)) = TagX THEN [outcome |-> "close", msgs |-> Tail(msgs)]
    ELSE IdleInspectAnyTag(Tail(msgs))

\* The idle-point loop over the client's descriptors (core.rs 226-242):
\* "query" when the queue was emptied, "close" on 'X', "panic" on any other tag.
RECURSIVE IdleInspect(_)
IdleInspect(msgs) ==
    IF msgs = <<>> THEN [outcome |-> "query", msgs |-> msgs]
    ELSE IF msg_type(Head(msgs)) = TagQ THEN IdleInspect(Tail(msgs))
    ELSE IF msg_type(Head(msgs)) = TagX THEN [outcome |-> "close", msgs |-> Tail(msgs)]
    ELSE [outcome |-> "panic", msgs |-> Tail(msgs)]

\* The loop over the server's descriptors inside a transaction (core.rs 303-320):
\* "idle" when a ReadyForQuery with status 'I' breaks the transaction loop,
\* "panic" on 'X', "continue" when the queue was emptied.
RECURSIVE ServerInspect(_, _)
ServerInspect(msgs, buffer) ==
    IF msgs = <<>> THEN [outcome |-> "continue", msgs |-> msgs]
    ELSE IF msg_type(Head(msgs)) = TagZ /\ transaction_type(Head(msgs), buffer) = TagI
    THEN [outcome |-> "idle", msgs |-> Tail(msgs)]
    ELSE IF msg_type(Head(msgs)) = TagX THEN [outcome |-> "panic", msgs |-> Tail(msgs)]
    ELSE ServerInspect(Tail(msgs), buffer)

\* The loop over the client's descriptors inside a transaction (core.rs 323-333).
RECURSIVE ClientInspect(_)
ClientInspect(msgs) ==
    IF msgs = <<>> THEN [outcome |-> "continue", msgs |-> msgs]
    ELSE IF msg_type(Head(msgs)) = TagX THEN [outcome |-> "panic", msgs |-> Tail(msgs)]
    ELSE ClientInspect(Tail(msgs))

(***************************************************************************)
(* The startup phase of a client: the packets a client may send, the       *)
(* frames the proxy answers with (proto.rs 44-72) and the parser of        *)
(* startup packets (ProtoParser::parse_startup).                           *)
(***************************************************************************)
CANCEL_REQUEST_VERSION == 80877102
SSL_REQUEST_VERSION == 80877103
ProtocolVersion3 == 196608   \* version 3.0 of the protocol

\* BigEndian::write_i32: the four bytes of v in two's complement.
WriteI32(v) ==
    <<(v \div 16777216) % 256, (v \div 65536) % 256, (v \div 256) % 256, v % 256>>

KeyDatabase == <<100, 97, 116, 97, 98, 97, 115, 101>>   \* "database"
DatabaseBytes(d) == IF d = "a" THEN <<97>> ELSE <<98>>

\* The database a name on the wire stands for, "" when it is none of Databases.
DatabaseOf(name) ==
    IF \E d \in Databases : DatabaseBytes(d) = name
    THEN CHOOSE d \in Databases : DatabaseBytes(d) = name
    ELSE ""

\* A StartupMessage whose only parameter is the database, one with no parameter
\* at all, and the two requests that take the place of a StartupMessage.
StartupMessageFor(d) ==
    LET body == WriteI32(ProtocolVersion3) \o KeyDatabase \o <<0>> \o DatabaseBytes(d) \o <<0, 0>>
    IN WriteI32(Len(body) + 4) \o body
StartupWithoutDatabase == WriteI32(9) \o WriteI32(ProtocolVersion3) \o <<0>>
SSLRequest == WriteI32(8) \o WriteI32(SSL_REQUEST_VERSION)
CancelRequest == WriteI32(16) \o WriteI32(CANCEL_REQUEST_VERSION) \o WriteI32(1) \o WriteI32(2)

\* The lengths at which a StartupMessage is cut to give the packets that are
\* not whole: in the length, in the version, after the version and in a key.
StartupCuts == {2, 6, 8, 12}
IncompleteStartups == {SubSeq(StartupMessageFor("a"), 1, k) : k \in StartupCuts}

SslDenied == <<78>>   \* 'N'

\* messages::server_parameter
ServerParameterMessage(key, value) ==
    LET body == key \o <<0>> \o value \o <<0>>
    IN <<TagS>> \o WriteI32(Len(body) + 4) \o body

\* Lexicographic order of byte strings, the order of the keys of a BTreeMap.
RECURSIVE BytesLess(_, _)
BytesLess(a, b) ==
    IF b = <<>> THEN FALSE
    ELSE IF a = <<>> THEN TRUE
    ELSE IF Head(a) # Head(b) THEN Head(a) < Head(b)
    ELSE BytesLess(Tail(a), Tail(b))

\* A payload that carries none of the parameters.
ServerParametersPayloadEmpty(params) == <<>>

\* The payload of write_server_parameters: one frame per entry, in key order.
RECURSIVE ServerParametersPayload(_)
ServerParametersPayload(params) ==
    IF params = {} THEN <<>>
    ELSE LET first == CHOOSE kv \in params : \A o \in params : o = kv \/ BytesLess(kv[1], o[1])
         IN ServerParameterMessage(first[1], first[2])
               \o ServerParametersPayload(params \ {first})

\* A parser that forgets the frame it was in but not how much it has read.
msg_complete_keeps_count(p) == [p EXCEPT !.current_msg_type = NoType, !.current_msg_length = 0]

msg_complete(p) ==
    [p EXCEPT !.current_msg_type = NoType, !.current_msg_length = 0,
              !.current_msg_bytes_read = 0]

StartupMessage(version, parameters) ==
    [protocol_version |-> version, parameters |-> parameters]
NoStartupMessage == StartupMessage(0, {})

\* StartupMessage::database_name
database_name(sm) ==
    IF \E kv \in sm.parameters : kv[1] = KeyDatabase
    THEN (CHOOSE kv \in sm.parameters : kv[1] = KeyDatabase)[2]
    ELSE NoParameter

\* The loop of parse_startup over the parameters (proto.rs 196-257): "panic" when
\* the buffer ends before the terminating zero byte.
RECURSIVE StartupParameters(_, _, _, _, _)
StartupParameters(buffer, offset, p, version, parameters) ==
    IF ~(offset < Len(buffer))
    THEN [n |-> offset, startup |-> "panic", parser |-> p, message |-> NoStartupMessage]
    ELSE IF buffer[offset + 1] = 0
    THEN [n |-> offset + 1, startup |-> "Message", parser |-> msg_complete(p),
          message |-> StartupMessage(version, parameters)]
    ELSE LET key_end == CStrEnd(buffer, offset)
             value_end == CStrEnd(buffer, key_end + 1)
         IN IF ~(key_end < Len(buffer)) \/ ~(value_end < Len(buffer))
            THEN [n |-> offset, startup |-> "panic", parser |-> p, message |-> NoStartupMessage]
            ELSE StartupParameters(buffer, value_end + 1,
                    [p EXCEPT !.current_msg_bytes_read = @ + (value_end + 1 - offset)],
                    version,
                    MapInsert(parameters, <<BufSlice(buffer, offset, key_end),
                                            BufSlice(buffer, key_end + 1, value_end)>>))

\* A parse_startup that takes the version of a CancelRequest for one whatever
\* the length.
StartupFromVersionAnyLength(buffer, offset, p, version) ==
    IF version = CANCEL_REQUEST_VERSION
    THEN [n |-> 16, startup |-> "CancelRequest", parser |-> msg_complete(p),
          message |-> NoStartupMessage]
    ELSE IF version = SSL_REQUEST_VERSION /\ p.current_msg_length = 8
    THEN [n |-> 8, startup |-> "SSLRequest", parser |-> msg_complete(p),
          message |-> NoStartupMessage]
    ELSE StartupParameters(buffer, offset, p, version, {})

\* parse_startup from the protocol version on (proto.rs 165-257); p is the parser
\* after the length has been read.
StartupFromVersion(buffer, offset, p, version) ==
    IF version = CANCEL_REQUEST_VERSION /\ p.current_msg_length = 16
    THEN [n |-> 16, startup |-> "CancelRequest", parser |-> msg_complete(p),
          message |-> NoStartupMessage]
    ELSE IF version = SSL_REQUEST_VERSION /\ p.current_msg_length = 8
    THEN [n |-> 8, startup |-> "SSLRequest", parser |-> msg_complete(p),
          message |-> NoStartupMessage]
    ELSE StartupParameters(buffer, offset, p, version, {})

\* ProtoParser::parse_startup of the bytes of one read.  The parser holds no
\* startup message when it is called: handle_startup calls it a second time only
\* after an SSLRequest, which leaves none.  startup is what is returned, "None",
\* "SSLRequest", "CancelRequest" or "Message", or "panic".
ParseStartup(buffer, p) ==
    IF Len(buffer) < 4
    THEN [n |-> 0, startup |-> "None", parser |-> p, message |-> NoStartupMessage]
    ELSE LET p1 == [p EXCEPT !.current_msg_length = ReadI32(buffer, 0),
                             !.current_msg_bytes_read = @ + 4]
         IN IF p1.current_msg_bytes_read < 8
            THEN IF Min(4, Len(buffer) - 4) < 4
                 THEN [n |-> 4, startup |-> "None", parser |-> p1,
                       message |-> NoStartupMessage]
                 ELSE StartupFromVersion(buffer, 8,
                         [p1 EXCEPT !.current_msg_bytes_read = @ + 4], ReadI32(buffer, 4))
            ELSE StartupFromVersion(buffer, 4, p1, 0)

\* The parameters in the order of BTreeMap::iter, each as key, 0, value, 0.
RECURSIVE ParameterBytes(_)
ParameterBytes(parameters) ==
    IF parameters = {} THEN <<>>
    ELSE LET first == CHOOSE kv \in parameters :
                         \A o \in parameters : o = kv \/ BytesLess(kv[1], o[1])
         IN first[1] \o <<0>> \o first[2] \o <<0>> \o ParameterBytes(parameters \ {first})

\* The bytes of a message without the zero byte that ends the parameters.
as_bytes_unterminated(sm) ==
    LET body == WriteI32(sm.protocol_version) \o ParameterBytes(sm.parameters)
    IN WriteI32(Len(body) + 4) \o body

\* StartupMessage::as_bytes
as_bytes(sm) ==
    LET body == WriteI32(sm.protocol_version) \o ParameterBytes(sm.parameters) \o <<0>>
    IN WriteI32(Len(body) + 4) \o body

\* A loop over the descriptors that takes an ErrorResponse for a frame to ignore.
RECURSIVE ConnectInspectIgnoresError(_, _, _, _)
ConnectInspectIgnoresError(msgs, buffer, params, hasPassword) ==
    IF msgs = <<>> THEN [outcome |-> "more", msgs |-> msgs, params |-> params]
    ELSE LET msg == Head(msgs)
         IN IF msg_type(msg) = TagR
            THEN IF authentication_type(msg, buffer) = "AuthOk"
                    \/ (authentication_type(msg, buffer) # "None" /\ hasPassword)
                 THEN ConnectInspectIgnoresError(Tail(msgs), buffer, params, hasPassword)
                 ELSE [outcome |-> "panic", msgs |-> Tail(msgs), params |-> params]
            ELSE IF msg_type(msg) = TagZ /\ transaction_type(msg, buffer) = TagI
            THEN [outcome |-> "ready", msgs |-> Tail(msgs), params |-> params]
            ELSE IF msg_type(msg) = TagS /\ server_parameter(msg, buffer) # NoParameter
            THEN ConnectInspectIgnoresError(Tail(msgs), buffer,
                    MapInsert(params, server_parameter(msg, buffer)), hasPassword)
            ELSE ConnectInspectIgnoresError(Tail(msgs), buffer, params, hasPassword)

\* The loop over the descriptors of one read in ManageConnection::connect
\* (pool.rs 92-137): "ready" on a ReadyForQuery with status 'I', "error" on 'E',
\* "panic" on an authentication request that cannot be answered, "more" when the
\* queue was emptied; hasPassword says whether the database has a password.
RECURSIVE ConnectInspect(_, _, _, _)
ConnectInspect(msgs, buffer, params, hasPassword) ==
    IF msgs = <<>> THEN [outcome |-> "more", msgs |-> msgs, params |-> params]
    ELSE LET msg == Head(msgs)
         IN IF msg_type(msg) = TagE
            THEN [outcome |-> "error", msgs |-> Tail(msgs), params |-> params]
            ELSE IF msg_type(msg) = TagR
            THEN IF authentication_type(msg, buffer) = "AuthOk"
                    \/ (authentication_type(msg, buffer) # "None" /\ hasPassword)
                 THEN ConnectInspect(Tail(msgs), buffer, params, hasPassword)
                 ELSE [outcome |-> "panic", msgs |-> Tail(msgs), params |-> params]
            ELSE IF msg_type(msg) = TagZ /\ transaction_type(msg, buffer) = TagI
            THEN [outcome |-> "ready", msgs |-> Tail(msgs), params |-> params]
            ELSE IF msg_type(msg) = TagS /\ server_parameter(msg, buffer) # NoParameter
            THEN ConnectInspect(Tail(msgs), buffer,
                                MapInsert(params, server_parameter(msg, buffer)), hasPassword)
            ELSE ConnectInspect(Tail(msgs), buffer, params, hasPassword)

(***************************************************************************)
(* The state.                                                              *)
(***************************************************************************)
VARIABLES
    env,           \* what the surroundings of the proxy may do in this run (never changes)
    feed,          \* a framed connection driven on its own: the stream its socket
                   \* delivers, how much of it has been read, its PgConn, of the
                   \* last read_and_parse the buffer given to parse, the parser
                   \* before it, the count returned and the descriptors, and the
                   \* frames that the descriptors of all calls describe
    trip,          \* a StartupMessage, the bytes as_bytes makes of it and what
                   \* parse_startup of a new parser returns for these bytes
    mainPc,        \* main: "listen" (first select), "drain" (second select), "done"
    sigCount,      \* SIGTERM/SIGINT delivered to the process
    sigTaken,      \* of those, the ones main's signal streams have yielded
    shutdownSent,  \* the watch channel's value has been replaced (tx.send)
    workers,       \* holders of a wait-group Worker: Listener or a session
    config,        \* the live configuration: database -> pool_size
    reloads,       \* successful reloads so far
    disk,          \* the configuration file: file is what it holds, <<c>> for the
                   \* configuration c and <<>> when it is missing or does not
                   \* parse; failed counts the reloads that did not load it
    mutex,         \* holder of the registry mutex, 0 when free
    pools,         \* the registry: database -> pool, 0 when vacant
    poolMax,       \* pool -> max_size given to the builder, 0 when not built
    pc,            \* session -> where its task stands
    exit,          \* session -> how its task ended: "ok" (nothing framed at the idle
                   \* read), "close" (Terminate at the idle point), "shutdown",
                   \* "violation" (the panic of the idle point), "handshake", "error",
                   \* "panic" (a panic inside a transaction), "startup_panic" (a
                   \* panic inside the handshake); "none" while it runs
    db,            \* session -> database of its startup message, "" before
    handle,        \* session -> the pool handle get_pool returned, 0 before
    borrowed,      \* session -> the server connection it holds, 0 when none
    nParsed,       \* session -> n of the outer loop (bytes framed by the idle read)
    client,        \* session -> PgConn of the client
    cliStream,     \* session -> bytes the client has sent since the handshake
    cliPos,        \* session -> how many of them the session has read
    cliEof,        \* session -> the client has closed its side
    toServer,      \* session -> bytes the session has written to server sockets
    toClient,      \* session -> bytes the session has written to its client
    startupPacket, \* session -> the startup packet its client has sent and the
                   \* handshake has not read yet, <<>> when there is none
    startupSent,   \* session -> bytes the handshake has written to its client
    fromServer,    \* session -> bytes the session has read from server sockets
    txBase,        \* session -> srvPos of its server when the transaction began
    asked,         \* connection -> the sessions whose frames were written to it,
                   \* one entry for each whole frame, in the order of the writes
    connState,     \* connection -> "unused", "connecting", "failed" (connect returned an
                   \* error), "panicked" (connect panicked), "idle", "held", "retired"
    connPool,      \* connection -> its pool
    server,        \* connection -> PgConn of the server
    srvStream,     \* connection -> bytes the backend has sent since its handshake
    srvPos,        \* connection -> how many of them have been read
    srvEof,        \* connection -> the backend has closed its side
    clientFrames,  \* frames sent by clients so far
    serverFrames,  \* frames sent by backends so far
    timeouts       \* writes that ran into their timeout so far

mainVars == <<mainPc, sigCount, sigTaken, shutdownSent, workers>>
cfgVars == <<config, reloads, disk>>
regVars == <<mutex, pools, poolMax>>
sessVars == <<pc, exit, db, handle, borrowed, nParsed, client, txBase>>
cliVars == <<cliStream, cliPos, cliEof, clientFrames>>
histVars == <<toServer, toClient, fromServer, asked>>
hsVars == <<startupPacket, startupSent>>
connVars == <<connState, connPool, server>>
srvVars == <<srvStream, srvPos, srvEof, serverFrames>>
vars == <<env, feed, trip, hsVars, timeouts, mainVars, cfgVars, regVars, sessVars, cliVars, histVars, connVars, srvVars>>

NoResult ==
    [n |-> 0, startup |-> "None", parser |-> NewParser,
     message |-> [protocol_version |-> 0, parameters |-> {}]]
NoTrip ==
    [message |-> [protocol_version |-> 0, parameters |-> {}], bytes |-> <<>>,
     parsed |-> FALSE, result |-> NoResult]
NoCall == [buffer |-> <<>>, before |-> NewParser, n |-> 0, msgs |-> <<>>]
NoFeed == [stream |-> <<>>, pos |-> 0, conn |-> NewPgConn, last |-> NoCall, frames |-> <<>>]

InitProxy ==
    /\ feed = NoFeed
    /\ trip = NoTrip
    /\ mainPc = "listen"
    /\ sigCount = 0
    /\ sigTaken = 0
    /\ shutdownSent = FALSE
    /\ workers = {Listener}
    /\ config = [d \in Databases |-> 1]
    /\ disk = [file |-> <<config>>, failed |-> 0]
    /\ reloads = 0
    /\ mutex = 0
    /\ pools = [d \in Databases |-> 0]
    /\ poolMax = [p \in PoolIds |-> 0]
    /\ pc = [s \in Sessions |-> "new"]
    /\ exit = [s \in Sessions |-> "none"]
    /\ db = [s \in Sessions |-> ""]
    /\ handle = [s \in Sessions |-> 0]
    /\ borrowed = [s \in Sessions |-> 0]
    /\ nParsed = [s \in Sessions |-> 0]
    /\ client = [s \in Sessions |-> NewPgConn]
    /\ cliStream = [s \in Sessions |-> <<>>]
    /\ cliPos = [s \in Sessions |-> 0]
    /\ cliEof = [s \in Sessions |-> FALSE]
    /\ toServer = [s \in Sessions |-> <<>>]
    /\ toClient = [s \in Sessions |-> <<>>]
    /\ asked = [c \in ConnIds |-> <<>>]
    /\ startupPacket = [s \in Sessions |-> <<>>]
    /\ startupSent = [s \in Sessions |-> <<>>]
    /\ fromServer = [s \in Sessions |-> <<>>]
    /\ txBase = [s \in Sessions |-> 0]
    /\ connState = [c \in ConnIds |-> "unused"]
    /\ connPool = [c \in ConnIds |-> 0]
    /\ server = [c \in ConnIds |-> NewPgConn]
    /\ srvStream = [c \in ConnIds |-> <<>>]
    /\ srvPos = [c \in ConnIds |-> 0]
    /\ srvEof = [c \in ConnIds |-> FALSE]
    /\ clientFrames = 0
    /\ serverFrames = 0
    /\ timeouts = 0

Running == mainPc # "done"


(***************************************************************************)
(* The pool (bb8::Pool<PgConnPool>) and its manager.                       *)
(***************************************************************************)
IdleOf(p) == {c \in ConnIds : connState[c] = "idle" /\ connPool[c] = p}
LiveOf(p) == {c \in ConnIds : connState[c] \in {"idle", "held"} /\ connPool[c] = p}
PoolDb(p) == CHOOSE d \in Databases : pools[d] = p

\* A bound read from the live configuration at each checkout.
CapacityOfLiveConfig(p) == config[PoolDb(p)]

\* The bound the builder was given: Pool::builder().max_size(manager.pool_size().await)
Capacity(p) == poolMax[p]

\* A probe that fails only on a closed socket.
ProbeOpenOnly(c) == ~srvEof[c]

\* PgConn::is_valid, through ManageConnection::is_valid: the try_read would block.
ProbeOk(c) == srvPos[c] = Len(srvStream[c]) /\ ~srvEof[c]

\* A pool that hands a connection out and keeps it in its idle queue.
TakeAndKeepIdle(cs, c) == [cs EXCEPT ![c] = IF @ = "unused" THEN "held" ELSE @]

\* The pool hands the connection to one borrower: it leaves the idle queue.
Take(cs, c) == [cs EXCEPT ![c] = "held"]

\* The end of a borrow: the pool asks has_broken and re-inserts or drops.
\* A guard that is dropped without the connection going back to the pool.
PutBackForgotten(cs, c, conn) == cs

PutBack(cs, c, conn) == [cs EXCEPT ![c] = IF has_broken(conn) THEN "retired" ELSE "idle"]

\* What is kept of a connection once the pool holds it or has dropped it.
Kept(conn) ==
    IF has_broken(conn)
    THEN [NewPgConn EXCEPT !.is_broken = conn.is_broken,
                           !.is_active_transaction = conn.is_active_transaction]
    ELSE conn

FirstUnused(c) ==
    /\ connState[c] = "unused" /\ c <= env.conns
    /\ \A e \in ConnIds : e < c => connState[e] # "unused"

\* The pool has an idle connection c that passes the probe, or may dial c.
CanTake(p, c) == connState[c] = "idle" /\ connPool[c] = p /\ ProbeOk(c)
CanDial(p, c) == FirstUnused(c) /\ IdleOf(p) = {} /\ Cardinality(LiveOf(p)) < Capacity(p)

(***************************************************************************)
(* Socket reads: a read returns all the bytes that have arrived, or fewer  *)
(* of them when the network delivers what the peer sent in pieces.         *)
(***************************************************************************)
Chunks(avail) == {avail} \cup {k \in env.cuts : k < avail}

(***************************************************************************)
(* Socket writes (net::write_all_with_timeout).  A write ends "ok" with    *)
(* the whole payload written, "timeout" (only with a timeout given) with a *)
(* proper prefix written, or "err" (the peer has closed).  Of the proper   *)
(* prefixes the shortest and the longest are kept: the session never looks *)
(* at how much a write has written.                                        *)
(***************************************************************************)
\* A write that may report the timeout whether or not a timeout was given.
WriteOutcomesSentinelUntimed(payload, timed, peerClosed) ==
    {[result |-> "ok", written |-> payload, late |-> 0]}
    \cup (IF timeouts < env.timeouts
          THEN {[result |-> "timeout", written |-> SubSeq(payload, 1, k), late |-> 1] :
                   k \in {0, Len(payload) - 1} \cap (0..(Len(payload) - 1))}
          ELSE {})
    \cup (IF peerClosed THEN {[result |-> "err", written |-> <<>>, late |-> 0]} ELSE {})

WriteOutcomes(payload, timed, peerClosed) ==
    {[result |-> "ok", written |-> payload, late |-> 0]}
    \cup (IF timed /\ timeouts < env.timeouts
          THEN {[result |-> "timeout", written |-> SubSeq(payload, 1, k), late |-> 1] :
                   k \in {0, Len(payload) - 1} \cap (0..(Len(payload) - 1))}
          ELSE {})
    \cup (IF peerClosed THEN {[result |-> "err", written |-> <<>>, late |-> 0]} ELSE {})

(***************************************************************************)
(* The end of a session task: its client state is dropped and its Worker   *)
(* is dropped.  srv is the connection it held (0 for none) and conn that  *)
(* connection's PgConn at the moment the borrow ends.                      *)
(***************************************************************************)
\* The whole frames of a byte string, in order.
FrameSize(bytes) ==
    1 + bytes[2] * 16777216 + bytes[3] * 65536 + bytes[4] * 256 + bytes[5]

RECURSIVE FramesOf(_)
FramesOf(bytes) ==
    IF Len(bytes) < 5 \/ Len(bytes) < FrameSize(bytes)
    THEN <<>>
    ELSE <<SubSeq(bytes, 1, FrameSize(bytes))>>
            \o FramesOf(SubSeq(bytes, FrameSize(bytes) + 1, Len(bytes)))

\* One entry for session s for each whole frame of the bytes written.
Owners(s, written) == [i \in 1..Len(FramesOf(written)) |-> s]

\* A task that ends and keeps its Worker.
DropWorkerLeaked(ws, h) == ws

\* A task or a future that ends drops the Worker it owns, however it ends.
DropWorker(ws, h) == ws \ {h}

TaskEnds(s, how, srv, conn) ==
    /\ pc' = [pc EXCEPT ![s] = "done"]
    /\ exit' = [exit EXCEPT ![s] = how]
    /\ workers' = DropWorker(workers, s)
    /\ borrowed' = [borrowed EXCEPT ![s] = 0]
    /\ client' = [client EXCEPT ![s] = NewPgConn]
    /\ nParsed' = [nParsed EXCEPT ![s] = 0]
    /\ txBase' = [txBase EXCEPT ![s] = 0]
    /\ cliStream' = [cliStream EXCEPT ![s] = <<>>]
    /\ cliPos' = [cliPos EXCEPT ![s] = 0]
    /\ cliEof' = [cliEof EXCEPT ![s] = FALSE]
    /\ toServer' = [toServer EXCEPT ![s] = <<>>]
    /\ toClient' = [toClient EXCEPT ![s] = <<>>]
    /\ fromServer' = [fromServer EXCEPT ![s] = <<>>]
    /\ IF srv = 0
       THEN UNCHANGED <<connState, server, srvStream, srvPos, srvEof, asked>>
       ELSE /\ connState' = PutBack(connState, srv, conn)
            /\ server' = [server EXCEPT ![srv] = Kept(conn)]
            /\ asked' = IF has_broken(conn) THEN [asked EXCEPT ![srv] = <<>>] ELSE asked
            /\ IF has_broken(conn)
               THEN /\ srvStream' = [srvStream EXCEPT ![srv] = <<>>]
                    /\ srvPos' = [srvPos EXCEPT ![srv] = 0]
                    /\ srvEof' = [srvEof EXCEPT ![srv] = FALSE]
               ELSE UNCHANGED <<srvStream, srvPos, srvEof>>
    /\ UNCHANGED <<env, feed, trip, hsVars, mainPc, sigCount, sigTaken, shutdownSent, cfgVars, regVars, db, handle,
                   connPool, clientFrames, serverFrames>>

(***************************************************************************)
(* The accept loop (main::listen_for_clients) and the handshake            *)
(* (PgConn::handle_startup, PgPooler::get_pool).                           *)
(***************************************************************************)
Accept ==
    /\ mainPc = "listen"
    /\ \E s \in Sessions :
          /\ pc[s] = "new" /\ s <= env.clients
          /\ \A t \in Sessions : t < s => pc[t] # "new"
          /\ pc' = [pc EXCEPT ![s] = "startup"]
          /\ workers' = workers \cup {s}
    /\ UNCHANGED <<env, feed, trip, hsVars, timeouts, mainPc, sigCount, sigTaken, shutdownSent, cfgVars, regVars, exit, db,
                   handle, borrowed, nParsed, client, txBase, cliVars, histVars,
                   connVars, srvVars>>

\* The client's StartupMessage names database d; AuthenticationOk is written.
Startup(s, d) ==
    /\ Running /\ pc[s] = "startup"
    /\ d \in env.databases
    /\ db' = [db EXCEPT ![s] = d]
    /\ startupSent' = [startupSent EXCEPT ![s] = @ \o AuthenticationOk]
    /\ pc' = [pc EXCEPT ![s] = "get_pool"]
    /\ UNCHANGED <<env, feed, trip, startupPacket, timeouts, mainVars, cfgVars, regVars, exit, handle, borrowed, nParsed, client,
                   txBase, cliVars, histVars, connVars, srvVars>>

\* EOF, a CancelRequest, an incomplete startup packet or a failed write.
StartupFail(s) ==
    /\ Running /\ pc[s] \in {"startup", "startup_ssl"}
    /\ TaskEnds(s, "handshake", 0, NewPgConn)
    /\ UNCHANGED timeouts

\* A registry whose lookup and insert are not under one guard.
MutexNeverHeld == TRUE

\* self.pools.lock().await returns only while no other task holds the guard.
MutexFree == mutex = 0

\* The lock is taken and the entry looked up; an occupied entry is cloned and the
\* guard dropped, a vacant one keeps the guard over the awaits that build the pool.
GetPoolLock(s) ==
    /\ Running /\ pc[s] = "get_pool"
    /\ MutexFree
    /\ IF pools[db[s]] # 0
       THEN /\ handle' = [handle EXCEPT ![s] = pools[db[s]]]
            /\ pc' = [pc EXCEPT ![s] = "hs_get"]
            /\ UNCHANGED mutex
       ELSE /\ mutex' = s
            /\ pc' = [pc EXCEPT ![s] = "build"]
            /\ UNCHANGED handle
    /\ UNCHANGED <<env, feed, trip, hsVars, timeouts, mainVars, cfgVars, pools, poolMax, exit, db, borrowed, nParsed, client,
                   txBase, cliVars, histVars, connVars, srvVars>>

\* The vacant branch: the pool is built with the configured size and inserted.
GetPoolBuild(s) ==
    /\ Running /\ pc[s] = "build"
    /\ \E p \in PoolIds :
          /\ poolMax[p] = 0
          /\ \A q \in PoolIds : q < p => poolMax[q] # 0
          /\ poolMax' = [poolMax EXCEPT ![p] = config[db[s]]]
          /\ pools' = [pools EXCEPT ![db[s]] = p]
          /\ handle' = [handle EXCEPT ![s] = p]
    /\ mutex' = 0
    /\ pc' = [pc EXCEPT ![s] = "hs_get"]
    /\ UNCHANGED <<env, feed, trip, hsVars, timeouts, mainVars, cfgVars, exit, db, borrowed, nParsed, client, txBase,
                   cliVars, histVars, connVars, srvVars>>


(***************************************************************************)
(* Checkout: pool.get().  An idle connection is probed and handed out, or  *)
(* retired when the probe fails; with no idle connection and room under    *)
(* the bound a new one is dialled; otherwise the caller waits, and the     *)
(* wait or the dial may end in an error.                                   *)
(***************************************************************************)
AtGet(s) == pc[s] \in {"hs_get", "get"}

GetProbeFail(s, c) ==
    /\ Running /\ AtGet(s)
    /\ connState[c] = "idle" /\ connPool[c] = handle[s]
    /\ ~ProbeOk(c)
    /\ connState' = [connState EXCEPT ![c] = "retired"]
    /\ server' = [server EXCEPT ![c] = NewPgConn]
    /\ srvStream' = [srvStream EXCEPT ![c] = <<>>]
    /\ srvPos' = [srvPos EXCEPT ![c] = 0]
    /\ srvEof' = [srvEof EXCEPT ![c] = FALSE]
    /\ asked' = [asked EXCEPT ![c] = <<>>]
    /\ UNCHANGED <<env, feed, trip, hsVars, timeouts, mainVars, cfgVars, regVars, sessVars, cliVars, toServer, toClient,
                   fromServer, connPool, serverFrames>>

GetFail(s) ==
    /\ Running /\ AtGet(s)
    /\ IdleOf(handle[s]) = {}
    /\ TaskEnds(s, IF pc[s] = "hs_get" THEN "handshake" ELSE "error", 0, NewPgConn)
    /\ UNCHANGED timeouts

\* handle_startup, core.rs 141-144: the connection whose parameters are copied.
HsCheckout(s) ==
    /\ Running /\ pc[s] = "hs_get"
    /\ \E c \in ConnIds :
          /\ CanTake(handle[s], c) \/ CanDial(handle[s], c)
          /\ connState' = Take(connState, c)
          /\ connPool' = [connPool EXCEPT ![c] = handle[s]]
          /\ borrowed' = [borrowed EXCEPT ![s] = c]
    /\ pc' = [pc EXCEPT ![s] = "hs_params"]
    /\ UNCHANGED <<env, feed, trip, hsVars, timeouts, mainVars, cfgVars, regVars, exit, db, handle, nParsed, client,
                   txBase, cliVars, histVars, server, srvVars>>

\* handle_startup, core.rs 145-153: the parameters are written, the connection is
\* dropped, ReadyForQuery is written; a failed write ends the task.
HsParams(s) ==
    /\ Running /\ pc[s] = "hs_params"
    /\ \/ /\ connState' = PutBack(connState, borrowed[s], server[borrowed[s]])
          /\ borrowed' = [borrowed EXCEPT ![s] = 0]
          /\ pc' = [pc EXCEPT ![s] = "idle"]
          /\ startupSent' = [startupSent EXCEPT ![s] =
                @ \o ServerParametersPayload(server[borrowed[s]].server_parameters)
                  \o ReadyForQueryIdle]
          /\ UNCHANGED <<env, feed, trip, startupPacket, mainVars, cfgVars, regVars, exit, db, handle, nParsed, client,
                         txBase, cliVars, histVars, connPool, server, srvVars>>
       \/ TaskEnds(s, "handshake", borrowed[s], server[borrowed[s]])
    /\ UNCHANGED timeouts

(***************************************************************************)
(* The handshake of a client step by step (PgConn::handle_startup): the    *)
(* client sends a startup packet, the handshake reads and parses it and    *)
(* answers, and after the checkout the parameters and ReadyForQuery are    *)
(* written by two writes with the drop of the connection in between.       *)
(***************************************************************************)
AtStartup(s) == pc[s] \in {"startup", "startup_ssl"}

\* The client sends a startup packet: the first, or the one after the 'N'.
ClientStartup(s, packet) ==
    /\ Running /\ AtStartup(s)
    /\ startupPacket[s] = <<>>
    /\ packet \in env.startups
    /\ startupPacket' = [startupPacket EXCEPT ![s] = packet]
    /\ UNCHANGED <<env, feed, trip, startupSent, timeouts, mainVars, cfgVars, regVars, sessVars, cliVars,
                   histVars, connVars, srvVars>>

\* core.rs 93-134: the read, parse_startup and the match on what it returned.  A
\* write that fails and the end of file are StartupFail.
StartupRead(s) ==
    /\ Running /\ AtStartup(s)
    /\ startupPacket[s] # <<>>
    /\ LET r == ParseStartup(startupPacket[s], client[s].parser)
           conn == [client[s] EXCEPT !.buffer = Overlay(@, startupPacket[s]),
                                     !.parser = r.parser]
       IN IF r.startup = "panic"
          THEN TaskEnds(s, "startup_panic", 0, NewPgConn)
          ELSE IF r.startup = "SSLRequest" /\ pc[s] = "startup"
          THEN /\ startupSent' = [startupSent EXCEPT ![s] = @ \o SslDenied]
               /\ startupPacket' = [startupPacket EXCEPT ![s] = <<>>]
               /\ client' = [client EXCEPT ![s] = conn]
               /\ pc' = [pc EXCEPT ![s] = "startup_ssl"]
               /\ UNCHANGED <<env, feed, trip, mainVars, cfgVars, regVars, exit, db, handle, borrowed,
                              nParsed, txBase, cliVars, histVars, connVars, srvVars>>
          ELSE IF r.startup = "Message"
          THEN LET d == DatabaseOf(database_name(r.message))
               IN /\ startupSent' = [startupSent EXCEPT ![s] = @ \o AuthenticationOk]
                  /\ startupPacket' = [startupPacket EXCEPT ![s] = <<>>]
                  /\ client' = [client EXCEPT ![s] = conn]
                  /\ db' = [db EXCEPT ![s] = d]
                  /\ pc' = [pc EXCEPT ![s] = IF d = "" THEN "no_pool" ELSE "get_pool"]
                  /\ UNCHANGED <<env, feed, trip, mainVars, cfgVars, regVars, exit, handle, borrowed,
                                 nParsed, txBase, cliVars, histVars, connVars, srvVars>>
          ELSE TaskEnds(s, "handshake", 0, NewPgConn)
    /\ UNCHANGED timeouts

\* get_pool for a startup message that names no configured database: the
\* expect of pool.rs 170, or that of pool.rs 39 under the registry's guard.
GetPoolPanic(s) ==
    /\ Running /\ pc[s] = "no_pool"
    /\ TaskEnds(s, "startup_panic", 0, NewPgConn)
    /\ UNCHANGED timeouts

\* core.rs 145-147: the parameters of the connection are written and the
\* connection is dropped, whether or not the write succeeded.
HsWriteParams(s) ==
    /\ Running /\ pc[s] = "hs_params"
    /\ \/ /\ connState' = PutBack(connState, borrowed[s], server[borrowed[s]])
          /\ borrowed' = [borrowed EXCEPT ![s] = 0]
          /\ pc' = [pc EXCEPT ![s] = "hs_ready"]
          /\ startupSent' = [startupSent EXCEPT ![s] =
                @ \o ServerParametersPayload(server[borrowed[s]].server_parameters)]
          /\ UNCHANGED <<env, feed, trip, startupPacket, mainVars, cfgVars, regVars, exit, db, handle,
                         nParsed, client, txBase, cliVars, histVars, connPool, server, srvVars>>
       \/ TaskEnds(s, "handshake", borrowed[s], server[borrowed[s]])
    /\ UNCHANGED timeouts

\* core.rs 150: ReadyForQuery is written.
HsReady(s) ==
    /\ Running /\ pc[s] = "hs_ready"
    /\ \/ /\ pc' = [pc EXCEPT ![s] = "idle"]
          /\ startupSent' = [startupSent EXCEPT ![s] = @ \o ReadyForQueryIdle]
          /\ UNCHANGED <<env, feed, trip, startupPacket, mainVars, cfgVars, regVars, exit, db, handle,
                         borrowed, nParsed, client, txBase, cliVars, histVars, connVars,
                         srvVars>>
       \/ TaskEnds(s, "handshake", 0, NewPgConn)
    /\ UNCHANGED timeouts

\* core::spawn, core.rs 245-259: the checkout of a transaction, the flag and the
\* first write (5 s timeout; its timeout value is not looked at).
TxCheckout(s) ==
    /\ Running /\ pc[s] = "get"
    /\ \E c \in ConnIds :
          /\ CanTake(handle[s], c) \/ CanDial(handle[s], c)
          /\ \E w \in WriteOutcomes(SubSeq(client[s].buffer, 1, nParsed[s]), TRUE, FALSE) :
                /\ toServer' = [toServer EXCEPT ![s] = @ \o w.written]
                /\ asked' = [asked EXCEPT ![c] = @ \o Owners(s, w.written)]
                /\ timeouts' = timeouts + w.late
          /\ connState' = Take(connState, c)
          /\ connPool' = [connPool EXCEPT ![c] = handle[s]]
          /\ server' = [server EXCEPT ![c].is_active_transaction = TRUE]
          /\ borrowed' = [borrowed EXCEPT ![s] = c]
          /\ txBase' = [txBase EXCEPT ![s] = srvPos[c]]
    /\ pc' = [pc EXCEPT ![s] = "tx"]
    /\ UNCHANGED <<env, feed, trip, hsVars, mainVars, cfgVars, regVars, exit, db, handle, nParsed, client,
                   cliVars, toClient, fromServer, srvVars>>

(***************************************************************************)
(* The server-side handshake (ManageConnection::connect), run by the pool  *)
(* for a checkout that finds no idle connection and room under the bound.  *)
(* The connection it returns enters the idle queue, from where the waiting *)
(* checkout takes it; one that fails is dropped, and what is kept of it    *)
(* here is its PgConn at the moment connect ended.                         *)
(***************************************************************************)
ConnectingOf(p) == {c \in ConnIds : connState[c] = "connecting" /\ connPool[c] = p}

\* pool.rs 82-87: the socket is connected and the startup message written.
ConnectStart(s, c) ==
    /\ Running /\ AtGet(s)
    /\ connState[c] = "unused" /\ c <= env.dials
    /\ \A e \in ConnIds : e < c => connState[e] # "unused"
    /\ IdleOf(handle[s]) = {}
    /\ Cardinality(LiveOf(handle[s]) \cup ConnectingOf(handle[s])) < Capacity(handle[s])
    /\ connState' = [connState EXCEPT ![c] = "connecting"]
    /\ connPool' = [connPool EXCEPT ![c] = handle[s]]
    /\ UNCHANGED <<env, feed, trip, hsVars, timeouts, mainVars, cfgVars, regVars, sessVars, cliVars, histVars, server,
                   srvVars>>

\* pool.rs 90-138: one read_and_parse and the loop over its descriptors.
ConnectRead(c) ==
    /\ Running /\ connState[c] = "connecting"
    /\ IF srvPos[c] = Len(srvStream[c])
       THEN /\ srvEof[c]
            /\ connState' = [connState EXCEPT ![c] = "failed"]
            /\ server' = [server EXCEPT ![c] = ReadEof(server[c])]
            /\ UNCHANGED srvPos
       ELSE \E k \in Chunks(Len(srvStream[c]) - srvPos[c]) :
              LET r == ReadAndParse(server[c], SubSeq(srvStream[c], srvPos[c] + 1, srvPos[c] + k))
                  ins == ConnectInspect(r.conn.msgs, r.conn.buffer, r.conn.server_parameters,
                                        env.password)
              IN /\ srvPos' = [srvPos EXCEPT ![c] = @ + k]
                 /\ server' = [server EXCEPT ![c] = [r.conn EXCEPT !.msgs = ins.msgs,
                                                        !.server_parameters = ins.params]]
                 /\ connState' = [connState EXCEPT ![c] =
                                     IF ins.outcome = "ready" THEN "idle"
                                     ELSE IF ins.outcome = "more" THEN "connecting"
                                     ELSE IF ins.outcome = "panic" THEN "panicked"
                                     ELSE "failed"]
    /\ UNCHANGED <<env, feed, trip, hsVars, timeouts, mainVars, cfgVars, regVars, sessVars, cliVars, histVars, connPool,
                   srvStream, srvEof, serverFrames>>

(***************************************************************************)
(* The outer loop of core::spawn at its idle point.                        *)
(***************************************************************************)
\* A session that polls the shutdown channel inside the transaction loop too.
AtIdleOrInTransaction(s) == pc[s] \in {"idle", "tx"}

\* The only await that polls shutdown.changed() is the select of the idle read.
AtIdlePoint(s) == pc[s] = "idle"

ShutdownExit(s) ==
    /\ Running /\ AtIdlePoint(s)
    /\ shutdownSent
    /\ TaskEnds(s, "shutdown", 0, NewPgConn)
    /\ UNCHANGED timeouts

IdleRead(s) ==
    /\ Running /\ pc[s] = "idle"
    /\ UNCHANGED timeouts
    /\ IF cliPos[s] = Len(cliStream[s])
       THEN /\ cliEof[s]
            /\ TaskEnds(s, "error", 0, NewPgConn)
       ELSE \E k \in Chunks(Len(cliStream[s]) - cliPos[s]) :
              LET r == ReadAndParse(client[s], SubSeq(cliStream[s], cliPos[s] + 1, cliPos[s] + k))
                  ins == IdleInspect(r.conn.msgs)
              IN IF r.n = 0
                 THEN TaskEnds(s, "ok", 0, NewPgConn)
                 ELSE IF ins.outcome = "close"
                 THEN TaskEnds(s, "close", 0, NewPgConn)
                 ELSE IF ins.outcome = "panic"
                 THEN TaskEnds(s, "violation", 0, NewPgConn)
                 ELSE /\ pc' = [pc EXCEPT ![s] = "get"]
                      /\ client' = [client EXCEPT ![s] = [r.conn EXCEPT !.msgs = ins.msgs]]
                      /\ nParsed' = [nParsed EXCEPT ![s] = r.n]
                      /\ cliPos' = [cliPos EXCEPT ![s] = @ + k]
                      /\ UNCHANGED <<env, feed, trip, hsVars, mainVars, cfgVars, regVars, exit, db, handle, borrowed,
                                     txBase, cliStream, cliEof, clientFrames,
                                     histVars, connVars, srvVars>>

(***************************************************************************)
(* One iteration of the transaction loop after its read and its write:     *)
(* both descriptor queues are drained.  cconn and sconn are the two        *)
(* PgConns after the read, the other arguments the new read positions and  *)
(* byte histories.                                                         *)
(***************************************************************************)
TxInspect(s, c, cconn, sconn, cpos, spos, ts, tc, fs) ==
    LET si == ServerInspect(sconn.msgs, sconn.buffer)
        ci == ClientInspect(cconn.msgs)
    IN IF si.outcome = "panic"
       THEN TaskEnds(s, "panic", c, [sconn EXCEPT !.msgs = si.msgs])
       ELSE IF si.outcome = "continue" /\ ci.outcome = "panic"
       THEN TaskEnds(s, "panic", c, [sconn EXCEPT !.msgs = si.msgs])
       ELSE /\ IF si.outcome = "idle"
               THEN LET done == [sconn EXCEPT !.msgs = si.msgs,
                                              !.is_active_transaction = FALSE]
                    IN /\ pc' = [pc EXCEPT ![s] = "idle"]
                       /\ borrowed' = [borrowed EXCEPT ![s] = 0]
                       /\ connState' = PutBack(connState, c, done)
                       /\ server' = [server EXCEPT ![c] = done]
                       /\ client' = [client EXCEPT ![s] = cconn]
               ELSE /\ server' = [server EXCEPT ![c] = [sconn EXCEPT !.msgs = si.msgs]]
                    /\ client' = [client EXCEPT ![s] = [cconn EXCEPT !.msgs = ci.msgs]]
                    /\ UNCHANGED <<pc, borrowed, connState>>
            /\ cliPos' = [cliPos EXCEPT ![s] = cpos]
            /\ srvPos' = [srvPos EXCEPT ![c] = spos]
            /\ toServer' = [toServer EXCEPT ![s] = ts]
            /\ asked' = [asked EXCEPT ![c] =
                            @ \o Owners(s, SubSeq(ts, Len(toServer[s]) + 1, Len(ts)))]
            /\ toClient' = [toClient EXCEPT ![s] = tc]
            /\ fromServer' = [fromServer EXCEPT ![s] = fs]
            /\ UNCHANGED <<env, feed, trip, hsVars, mainVars, cfgVars, regVars, exit, db, handle, nParsed, txBase,
                           cliStream, cliEof, clientFrames, connPool, srvStream, srvEof,
                           serverFrames>>

\* The client's read wins the race (core.rs 273-275, 286-293).  The server's read
\* may or may not have been polled, so its carried bytes may have been copied.
TxClient(s) ==
    /\ Running /\ pc[s] = "tx"
    /\ LET c == borrowed[s]
       IN \E sconn \in {server[c], CopyCarry(server[c])} :
            IF cliPos[s] = Len(cliStream[s])
            THEN /\ cliEof[s]
                 /\ TaskEnds(s, "error", c, sconn)
                 /\ UNCHANGED timeouts
            ELSE \E k \in Chunks(Len(cliStream[s]) - cliPos[s]) :
                   LET r == ReadAndParse(client[s],
                                         SubSeq(cliStream[s], cliPos[s] + 1, cliPos[s] + k))
                   IN \E w \in WriteOutcomes(SubSeq(r.conn.buffer, 1, r.n), TRUE, srvEof[c]) :
                        /\ timeouts' = timeouts + w.late
                        /\ IF w.result = "err"
                           THEN TaskEnds(s, "error", c, sconn)
                           ELSE TxInspect(s, c, r.conn, sconn, cliPos[s] + k, srvPos[c],
                                          toServer[s] \o w.written, toClient[s], fromServer[s])

\* The server's read wins the race (core.rs 276-278, 294-297).
TxServer(s) ==
    /\ Running /\ pc[s] = "tx"
    /\ UNCHANGED timeouts
    /\ LET c == borrowed[s]
           cconn == CopyCarry(client[s])
       IN IF srvPos[c] = Len(srvStream[c])
          THEN /\ srvEof[c]
               /\ TaskEnds(s, "error", c, ReadEof(server[c]))
          ELSE \E k \in Chunks(Len(srvStream[c]) - srvPos[c]) :
                 LET data == SubSeq(srvStream[c], srvPos[c] + 1, srvPos[c] + k)
                     r == ReadAndParse(server[c], data)
                 IN \E w \in WriteOutcomes(SubSeq(r.conn.buffer, 1, r.n), FALSE, cliEof[s]) :
                      IF w.result = "err"
                      THEN TaskEnds(s, "error", c, r.conn)
                      ELSE TxInspect(s, c, cconn, r.conn, cliPos[s], srvPos[c] + k,
                                     toServer[s], toClient[s] \o w.written,
                                     fromServer[s] \o data)


(***************************************************************************)
(* The peers: clients and backends send whole frames and may close.        *)
(***************************************************************************)
Ready(s) == pc[s] \in {"idle", "get", "tx"}

ClientSend(s, f) ==
    /\ Running /\ Ready(s) /\ ~cliEof[s]
    /\ f \in env.clientFrames
    /\ clientFrames < env.nClientFrames
    /\ cliStream' = [cliStream EXCEPT ![s] = @ \o f]
    /\ clientFrames' = clientFrames + 1
    /\ UNCHANGED <<env, feed, trip, hsVars, timeouts, mainVars, cfgVars, regVars, sessVars, cliPos, cliEof, histVars, connVars,
                   srvVars>>

ClientClose(s) ==
    /\ Running /\ Ready(s) /\ ~cliEof[s]
    /\ env.closes
    /\ cliEof' = [cliEof EXCEPT ![s] = TRUE]
    /\ UNCHANGED <<env, feed, trip, hsVars, timeouts, mainVars, cfgVars, regVars, sessVars, cliStream, cliPos, clientFrames,
                   histVars, connVars, srvVars>>

Open(c) == connState[c] \in {"connecting", "idle", "held"} /\ ~srvEof[c]

BackendSend(c, f) ==
    /\ Running /\ Open(c)
    /\ f \in env.serverFrames
    /\ serverFrames < env.nServerFrames
    /\ srvStream' = [srvStream EXCEPT ![c] = @ \o f]
    /\ serverFrames' = serverFrames + 1
    /\ UNCHANGED <<env, feed, trip, hsVars, timeouts, mainVars, cfgVars, regVars, sessVars, cliVars, histVars, connVars, srvPos,
                   srvEof>>

\* A backend that answers each frame it is sent, in order, with one
\* ReadyForQuery('I'), and sends nothing else.
BackendAnswer(c) ==
    /\ Len(FramesOf(srvStream[c])) < Len(asked[c])
    /\ BackendSend(c, ReadyForQueryIdle)

BackendClose(c) ==
    /\ Running /\ Open(c)
    /\ env.closes
    /\ srvEof' = [srvEof EXCEPT ![c] = TRUE]
    /\ UNCHANGED <<env, feed, trip, hsVars, timeouts, mainVars, cfgVars, regVars, sessVars, cliVars, histVars, connVars,
                   srvStream, srvPos, serverFrames>>

(***************************************************************************)
(* The main task (main.rs 113-165).                                        *)
(***************************************************************************)
\* SIGTERM or SIGINT is delivered to the process.
Signal ==
    /\ Running
    /\ sigCount < env.signals
    /\ sigCount' = sigCount + 1
    /\ UNCHANGED <<env, feed, trip, hsVars, timeouts, mainPc, sigTaken, shutdownSent, workers, cfgVars, regVars, sessVars,
                   cliVars, histVars, connVars, srvVars>>

\* The file is edited and a SIGHUP finds it loadable: the configuration is
\* replaced.
Reload ==
    /\ Running
    /\ reloads < env.reloads
    /\ \E new \in [Databases -> PoolSizes] :
          /\ new # config
          /\ \A d \in Databases \ env.databases : new[d] = config[d]
          /\ config' = new
          /\ disk' = [disk EXCEPT !.file = <<new>>]
    /\ reloads' = reloads + 1
    /\ UNCHANGED <<env, feed, trip, hsVars, timeouts, mainVars, regVars, sessVars, cliVars, histVars, connVars, srvVars>>

(***************************************************************************)
(* The reload task (main.rs 122-142) with the file as a state of its own:  *)
(* somebody edits the file, and each SIGHUP loads what the file holds.     *)
(***************************************************************************)
BadFile == <<>>   \* a file that is missing or does not parse
FileContents == {<<c>> : c \in [Databases -> PoolSizes]} \cup {BadFile}

\* Config::from_file of a file that loads.
from_file(file) == file[1]
MaxReloadFails == 2

\* An update that replaces the entry of one database only.
update_one_database(old, new) == [old EXCEPT !["a"] = new["a"]]

\* UpdatableConfig::update: *config = new_config under the write lock.
update(old, new) == new

EditFile(content) ==
    /\ Running
    /\ content \in FileContents /\ content # disk.file
    /\ disk' = [disk EXCEPT !.file = content]
    /\ UNCHANGED <<env, feed, trip, hsVars, timeouts, mainVars, config, reloads, regVars, sessVars, cliVars,
                   histVars, connVars, srvVars>>

\* One pass of the loop: sighup.recv(), Config::from_file and the match.
Sighup ==
    /\ Running
    /\ IF disk.file = BadFile
       THEN /\ disk.failed < MaxReloadFails
            /\ disk' = [disk EXCEPT !.failed = @ + 1]
            /\ UNCHANGED <<config, reloads>>
       ELSE /\ reloads < env.reloads
            /\ config' = update(config, from_file(disk.file))
            /\ reloads' = reloads + 1
            /\ UNCHANGED disk
    /\ UNCHANGED <<env, feed, trip, hsVars, timeouts, mainVars, regVars, sessVars, cliVars, histVars, connVars,
                   srvVars>>

\* First select, first branch: the listener future is dropped with its Worker and
\* the shutdown value is sent.
MainShutdown ==
    /\ mainPc = "listen"
    /\ sigTaken < sigCount
    /\ sigTaken' = sigTaken + 1
    /\ shutdownSent' = TRUE
    /\ workers' = DropWorker(workers, Listener)
    /\ mainPc' = "drain"
    /\ UNCHANGED <<env, feed, trip, hsVars, timeouts, sigCount, cfgVars, regVars, sessVars, cliVars, histVars, connVars,
                   srvVars>>

\* First select, second branch: listen_for_clients returned (accept failed).
ListenerExit ==
    /\ mainPc = "listen"
    /\ workers' = DropWorker(workers, Listener)
    /\ mainPc' = "drain"
    /\ UNCHANGED <<env, feed, trip, hsVars, timeouts, sigCount, sigTaken, shutdownSent, cfgVars, regVars, sessVars, cliVars,
                   histVars, connVars, srvVars>>

\* A wait that returns although Workers are still held.
WaitReturnsAtOnce == TRUE

\* wg.wait() completes once every Worker has been dropped.
AllWorkersDropped == workers = {}

\* Second select, first branch: wg.wait() returns.
WaitDone ==
    /\ mainPc = "drain"
    /\ AllWorkersDropped
    /\ mainPc' = "done"
    /\ UNCHANGED <<env, feed, trip, hsVars, timeouts, sigCount, sigTaken, shutdownSent, workers, cfgVars, regVars, sessVars,
                   cliVars, histVars, connVars, srvVars>>

\* Second select, second branch: another SIGTERM or SIGINT.
SignalWhileDraining ==
    /\ mainPc = "drain"
    /\ sigTaken < sigCount
    /\ sigTaken' = sigTaken + 1
    /\ mainPc' = "done"
    /\ UNCHANGED <<env, feed, trip, hsVars, timeouts, sigCount, shutdownSent, workers, cfgVars, regVars, sessVars, cliVars,
                   histVars, connVars, srvVars>>

(***************************************************************************)
(* The whole proxy: two clients, two databases, signals and the drain.     *)
(* The peers send whole frames and do not close.                           *)
(***************************************************************************)
EnvAll ==
    [clients |-> 2, conns |-> 2, databases |-> Databases,
     nClientFrames |-> MaxClientFrames, nServerFrames |-> MaxServerFrames,
     clientFrames |-> {Query}, serverFrames |-> {ReadyForQueryIdle},
     closes |-> FALSE, cuts |-> {}, timeouts |-> 0,
     signals |-> MaxSignals, reloads |-> 0]

Init == InitProxy /\ env = EnvAll

Next ==
    \/ Accept
    \/ \E s \in Sessions, d \in Databases : Startup(s, d)
    \/ \E s \in Sessions : StartupFail(s)
    \/ \E s \in Sessions : GetPoolLock(s)
    \/ \E s \in Sessions : GetPoolBuild(s)
    \/ \E s \in Sessions, c \in ConnIds : GetProbeFail(s, c)
    \/ \E s \in Sessions : GetFail(s)
    \/ \E s \in Sessions : HsCheckout(s)
    \/ \E s \in Sessions : HsParams(s)
    \/ \E s \in Sessions : TxCheckout(s)
    \/ \E s \in Sessions : ShutdownExit(s)
    \/ \E s \in Sessions : IdleRead(s)
    \/ \E s \in Sessions : TxClient(s)
    \/ \E s \in Sessions : TxServer(s)
    \/ \E s \in Sessions, f \in ClientFrames : ClientSend(s, f)
    \/ \E c \in ConnIds, f \in ServerFrames : BackendSend(c, f)
    \/ Signal
    \/ MainShutdown
    \/ ListenerExit
    \/ WaitDone
    \/ SignalWhileDraining

Spec == Init /\ [][Next]_vars

(***************************************************************************)
(* The whole proxy with clients that may send any frame: sessions end in   *)
(* every way there is while main listens and while it drains.              *)
(***************************************************************************)
EnvWait ==
    [clients |-> 2, conns |-> 2, databases |-> {"a"},
     nClientFrames |-> MaxClientFrames, nServerFrames |-> MaxServerFrames,
     clientFrames |-> ClientFrames, serverFrames |-> {ReadyForQueryIdle},
     closes |-> FALSE, cuts |-> {}, timeouts |-> 0,
     signals |-> MaxSignals, reloads |-> 0]

InitWait == InitProxy /\ env = EnvWait

SpecWait == InitWait /\ [][Next]_vars

(***************************************************************************)
(* One pool under contention: two clients of one database, peers that may  *)
(* close, a configuration that may be reloaded; no signal arrives.         *)
(***************************************************************************)
EnvPool ==
    [clients |-> 2, conns |-> 2, databases |-> {"a"},
     nClientFrames |-> MaxClientFrames, nServerFrames |-> MaxServerFrames,
     clientFrames |-> {Query}, serverFrames |-> {ReadyForQueryIdle},
     closes |-> TRUE, cuts |-> {}, timeouts |-> 0,
     signals |-> 0, reloads |-> MaxReloads]

InitPool == InitProxy /\ env = EnvPool

NextPool ==
    \/ Accept
    \/ \E s \in Sessions, d \in Databases : Startup(s, d)
    \/ \E s \in Sessions : StartupFail(s)
    \/ \E s \in Sessions : GetPoolLock(s)
    \/ \E s \in Sessions : GetPoolBuild(s)
    \/ \E s \in Sessions, c \in ConnIds : GetProbeFail(s, c)
    \/ \E s \in Sessions : GetFail(s)
    \/ \E s \in Sessions : HsCheckout(s)
    \/ \E s \in Sessions : HsParams(s)
    \/ \E s \in Sessions : TxCheckout(s)
    \/ \E s \in Sessions : IdleRead(s)
    \/ \E s \in Sessions : TxClient(s)
    \/ \E s \in Sessions : TxServer(s)
    \/ \E s \in Sessions, f \in ClientFrames : ClientSend(s, f)
    \/ \E s \in Sessions : ClientClose(s)
    \/ \E c \in ConnIds, f \in ServerFrames : BackendSend(c, f)
    \/ \E c \in ConnIds : BackendClose(c)
    \/ Reload

SpecPool == InitPool /\ [][NextPool]_vars

(***************************************************************************)
(* Two clients of one database whose pool has one connection; the backend  *)
(* answers every Query with one ReadyForQuery('I').                        *)
(***************************************************************************)
EnvShare ==
    [clients |-> 2, conns |-> 2, databases |-> {"a"},
     nClientFrames |-> MaxClientFrames + 1, nServerFrames |-> MaxServerFrames + 1,
     clientFrames |-> {Query}, serverFrames |-> {ReadyForQueryIdle},
     closes |-> FALSE, cuts |-> {}, timeouts |-> 0,
     signals |-> 0, reloads |-> 0]

InitShare == InitProxy /\ env = EnvShare

NextShare ==
    \/ Accept
    \/ \E s \in Sessions, d \in Databases : Startup(s, d)
    \/ \E s \in Sessions : GetPoolLock(s)
    \/ \E s \in Sessions : GetPoolBuild(s)
    \/ \E s \in Sessions, c \in ConnIds : GetProbeFail(s, c)
    \/ \E s \in Sessions : HsCheckout(s)
    \/ \E s \in Sessions : HsParams(s)
    \/ \E s \in Sessions : TxCheckout(s)
    \/ \E s \in Sessions : IdleRead(s)
    \/ \E s \in Sessions : TxClient(s)
    \/ \E s \in Sessions : TxServer(s)
    \/ \E s \in Sessions : ClientSend(s, Query)
    \/ \E c \in ConnIds : BackendAnswer(c)

SpecShare == InitShare /\ [][NextShare]_vars

(***************************************************************************)
(* One client and the bytes relayed for it: the network may deliver what   *)
(* a peer sent in two reads, a write to the server may time out.           *)
(***************************************************************************)
HeaderLen == 5      \* a read that ends after the tag and the length of a frame

EnvRelay ==
    [clients |-> 1, conns |-> 2, databases |-> {"a"},
     nClientFrames |-> MaxClientFrames, nServerFrames |-> MaxServerFrames,
     clientFrames |-> ClientFrames, serverFrames |-> ServerFrames,
     closes |-> FALSE, cuts |-> {HeaderLen}, timeouts |-> MaxTimeouts,
     signals |-> 0, reloads |-> 0]

InitRelay == InitProxy /\ env = EnvRelay

NextRelay ==
    \/ Accept
    \/ \E s \in Sessions, d \in Databases : Startup(s, d)
    \/ \E s \in Sessions : StartupFail(s)
    \/ \E s \in Sessions : GetPoolLock(s)
    \/ \E s \in Sessions : GetPoolBuild(s)
    \/ \E s \in Sessions, c \in ConnIds : GetProbeFail(s, c)
    \/ \E s \in Sessions : GetFail(s)
    \/ \E s \in Sessions : HsCheckout(s)
    \/ \E s \in Sessions : HsParams(s)
    \/ \E s \in Sessions : TxCheckout(s)
    \/ \E s \in Sessions : IdleRead(s)
    \/ \E s \in Sessions : TxClient(s)
    \/ \E s \in Sessions : TxServer(s)
    \/ \E s \in Sessions, f \in ClientFrames : ClientSend(s, f)
    \/ \E c \in ConnIds, f \in ServerFrames : BackendSend(c, f)

SpecRelay == InitRelay /\ [][NextRelay]_vars

(***************************************************************************)
(* One client whose bytes the network may deliver three at a time: a read  *)
(* that brings fewer bytes than the tag and the length of a frame.         *)
(***************************************************************************)
EnvShortRead ==
    [clients |-> 1, conns |-> 2, databases |-> {"a"},
     nClientFrames |-> MaxClientFrames, nServerFrames |-> MaxServerFrames,
     clientFrames |-> ClientFrames, serverFrames |-> ServerFrames,
     closes |-> FALSE, cuts |-> {HeaderLen - 2}, timeouts |-> MaxTimeouts,
     signals |-> 0, reloads |-> 0]

InitShortRead == InitProxy /\ env = EnvShortRead

SpecShortRead == InitShortRead /\ [][NextRelay]_vars

(***************************************************************************)
(* Two clients of one database that may send any frame at any time; reads  *)
(* deliver all that has arrived.                                           *)
(***************************************************************************)
EnvIdle ==
    [clients |-> 2, conns |-> 2, databases |-> {"a"},
     nClientFrames |-> MaxClientFrames, nServerFrames |-> MaxServerFrames,
     clientFrames |-> ClientFrames, serverFrames |-> {ReadyForQueryIdle},
     closes |-> FALSE, cuts |-> {}, timeouts |-> 0,
     signals |-> 0, reloads |-> 0]

InitIdle == InitProxy /\ env = EnvIdle

SpecIdle == InitIdle /\ [][NextRelay]_vars

(***************************************************************************)
(* One client that sends Query and Terminate frames and a backend that may *)
(* answer with several ReadyForQuery frames that one read delivers         *)
(* together, as when the client has sent several queries at once; peers    *)
(* may close, a write may run into its timeout and the configuration may   *)
(* be reloaded.                                                            *)
(***************************************************************************)
EnvBurst ==
    [clients |-> 1, conns |-> 2, databases |-> {"a"},
     nClientFrames |-> MaxClientFrames + 1, nServerFrames |-> MaxServerFrames + 1,
     clientFrames |-> {Query, Terminate}, serverFrames |-> {ReadyForQueryIdle},
     closes |-> TRUE, cuts |-> {}, timeouts |-> MaxTimeouts,
     signals |-> 0, reloads |-> MaxReloads]

InitBurst == InitProxy /\ env = EnvBurst

SpecBurst == InitBurst /\ [][NextPool]_vars

(***************************************************************************)
(* The server-side handshake: a client of one database whose checkout      *)
(* makes the pool connect; the backend answers the startup message with    *)
(* frames that the network may deliver in two reads, and may close.        *)
(***************************************************************************)
MaxGreetingFrames == 3

EnvConnect ==
    [clients |-> 1, conns |-> 0, dials |-> 2, password |-> FALSE, databases |-> {"a"},
     nClientFrames |-> 0, nServerFrames |-> MaxGreetingFrames,
     clientFrames |-> {}, serverFrames |-> GreetingFrames,
     closes |-> TRUE, cuts |-> {HeaderLen}, timeouts |-> 0,
     signals |-> 0, reloads |-> 0]

InitConnect == InitProxy /\ env = EnvConnect

NextConnect ==
    \/ Accept
    \/ \E s \in Sessions, d \in Databases : Startup(s, d)
    \/ \E s \in Sessions : StartupFail(s)
    \/ \E s \in Sessions : GetPoolLock(s)
    \/ \E s \in Sessions : GetPoolBuild(s)
    \/ \E s \in Sessions, c \in ConnIds : ConnectStart(s, c)
    \/ \E c \in ConnIds : ConnectRead(c)
    \/ \E s \in Sessions, c \in ConnIds : GetProbeFail(s, c)
    \/ \E s \in Sessions : GetFail(s)
    \/ \E s \in Sessions : HsCheckout(s)
    \/ \E s \in Sessions : HsParams(s)
    \/ \E c \in ConnIds, f \in GreetingFrames : BackendSend(c, f)
    \/ \E c \in ConnIds : BackendClose(c)

SpecConnect == InitConnect /\ [][NextConnect]_vars

(***************************************************************************)
(* The handshake of a client: it sends a StartupMessage for one of two     *)
(* databases or without a database, an SSLRequest, a CancelRequest or a    *)
(* packet that is not whole; the checkout of the handshake makes the pool  *)
(* connect, and the backend answers with ParameterStatus and ReadyForQuery *)
(* frames, each delivered by one read.                                     *)
(***************************************************************************)
StartupPackets ==
    {StartupMessageFor(d) : d \in Databases}
       \cup {StartupWithoutDatabase, SSLRequest, CancelRequest} \cup IncompleteStartups

HandshakeServerFrames == {ParameterStatus, ParameterStatusB, ReadyForQueryIdle}

EnvHandshake ==
    [clients |-> 1, conns |-> 0, dials |-> 2, password |-> FALSE, databases |-> Databases,
     nClientFrames |-> 0, nServerFrames |-> MaxGreetingFrames,
     clientFrames |-> {}, serverFrames |-> HandshakeServerFrames,
     closes |-> FALSE, cuts |-> {}, timeouts |-> 0,
     signals |-> 0, reloads |-> 0, startups |-> StartupPackets]

InitHandshake == InitProxy /\ env = EnvHandshake

NextHandshake ==
    \/ Accept
    \/ \E s \in Sessions, packet \in StartupPackets : ClientStartup(s, packet)
    \/ \E s \in Sessions : StartupRead(s)
    \/ \E s \in Sessions : StartupFail(s)
    \/ \E s \in Sessions : GetPoolPanic(s)
    \/ \E s \in Sessions : GetPoolLock(s)
    \/ \E s \in Sessions : GetPoolBuild(s)
    \/ \E s \in Sessions, c \in ConnIds : ConnectStart(s, c)
    \/ \E c \in ConnIds : ConnectRead(c)
    \/ \E s \in Sessions, c \in ConnIds : GetProbeFail(s, c)
    \/ \E s \in Sessions : GetFail(s)
    \/ \E s \in Sessions : HsCheckout(s)
    \/ \E s \in Sessions : HsWriteParams(s)
    \/ \E s \in Sessions : HsReady(s)
    \/ \E c \in ConnIds, f \in HandshakeServerFrames : BackendSend(c, f)

SpecHandshake == InitHandshake /\ [][NextHandshake]_vars

(***************************************************************************)
(* Authentication and errors in the server-side handshake: the backend of  *)
(* a database with or without a configured password answers the startup    *)
(* message with authentication requests, ErrorResponse, ParameterStatus    *)
(* and ReadyForQuery frames, each delivered by one read.                   *)
(***************************************************************************)
AuthFrames ==
    {AuthenticationOk, AuthenticationCleartextPassword, AuthenticationMD5Password,
     AuthenticationKerberosV5, ErrorResponse, ParameterStatus, ReadyForQueryIdle}

EnvAuth(hasPassword) ==
    [clients |-> 1, conns |-> 0, dials |-> 2, password |-> hasPassword, databases |-> {"a"},
     nClientFrames |-> 1, nServerFrames |-> MaxGreetingFrames,
     clientFrames |-> {Query}, serverFrames |-> AuthFrames,
     closes |-> FALSE, cuts |-> {}, timeouts |-> 0,
     signals |-> 0, reloads |-> 0]

InitAuth == InitProxy /\ env \in {EnvAuth(FALSE), EnvAuth(TRUE)}

NextAuth ==
    \/ Accept
    \/ \E s \in Sessions, d \in Databases : Startup(s, d)
    \/ \E s \in Sessions : StartupFail(s)
    \/ \E s \in Sessions : GetPoolLock(s)
    \/ \E s \in Sessions : GetPoolBuild(s)
    \/ \E s \in Sessions, c \in ConnIds : ConnectStart(s, c)
    \/ \E c \in ConnIds : ConnectRead(c)
    \/ \E s \in Sessions, c \in ConnIds : GetProbeFail(s, c)
    \/ \E s \in Sessions : GetFail(s)
    \/ \E s \in Sessions : HsCheckout(s)
    \/ \E s \in Sessions : HsParams(s)
    \/ \E c \in ConnIds, f \in AuthFrames : BackendSend(c, f)
    \/ \E s \in Sessions : ClientSend(s, Query)
    \/ \E s \in Sessions : IdleRead(s)
    \/ \E s \in Sessions : TxCheckout(s)

SpecAuth == InitAuth /\ [][NextAuth]_vars

(***************************************************************************)
(* The framed connection on its own: a stream of frames reaches            *)
(* read_and_parse in chunks of any sizes, and the descriptors of each call *)
(* are taken from the queue before the next.                               *)
(***************************************************************************)
MaxParseFrames == 2

DataRow == <<68, 0, 0, 0, 11, 0, 1, 0, 0, 0, 1, 65>>   \* 'D', one column "A"
ParseFrames == {Terminate, Query, DataRow}

\* Frames whose declared length is less than 4: zero, three and -1.
ZeroLength == <<TagX, 0, 0, 0, 0>>
ShortLength == <<TagX, 0, 0, 0, 3>>
NegativeLength == <<TagX, 255, 255, 255, 255>>
InvalidFrames == {ZeroLength, ShortLength, NegativeLength}

RECURSIVE Flatten(_)
Flatten(frames) == IF frames = <<>> THEN <<>> ELSE Head(frames) \o Flatten(Tail(frames))

\* The streams of one to MaxParseFrames frames of a set.
StreamsOf(frames) ==
    UNION {{Flatten(fs) : fs \in [1..n -> frames]} : n \in 1..MaxParseFrames}

\* The frames described so far after descriptor m: a Message is a frame, a
\* Partial begins a frame or goes on with the one begun, a PartialComplete ends
\* it.
MergeOne(frames, m) ==
    LET size == m.end - m.start + 1
        open == frames # <<>> /\ ~frames[Len(frames)].whole
    IN IF m.kind # "Message" /\ open
       THEN [frames EXCEPT ![Len(frames)] =
                [tag |-> @.tag, size |-> @.size + size, whole |-> m.kind = "PartialComplete"]]
       ELSE Append(frames, [tag |-> m.tag, size |-> size, whole |-> m.kind = "Message"])

RECURSIVE Merge(_, _)
Merge(frames, msgs) ==
    IF msgs = <<>> THEN frames ELSE Merge(MergeOne(frames, Head(msgs)), Tail(msgs))

proxyVars ==
    <<env, hsVars, timeouts, mainVars, cfgVars, regVars, sessVars, cliVars, histVars, connVars,
      srvVars>>

\* The peer has a stream to send.
FeedStart(stream) ==
    /\ feed = NoFeed
    /\ stream \in env.streams
    /\ feed' = [feed EXCEPT !.stream = stream]
    /\ UNCHANGED <<trip, proxyVars>>

\* One read_and_parse whose read returns the next k bytes of the stream; the
\* caller then empties the queue.
FeedChunk(k) ==
    /\ feed.stream # <<>>
    /\ k \in 1..(Len(feed.stream) - feed.pos)
    /\ LET r == ReadAndParse(feed.conn, SubSeq(feed.stream, feed.pos + 1, feed.pos + k))
       IN feed' = [stream |-> feed.stream,
                   pos |-> feed.pos + k,
                   conn |-> [r.conn EXCEPT !.msgs = <<>>],
                   frames |-> Merge(feed.frames, r.conn.msgs),
                   last |-> [buffer |-> SubSeq(r.conn.buffer, 1,
                                               Len(feed.conn.incomplete_buffer) + k),
                             before |-> feed.conn.parser,
                             n |-> r.n,
                             msgs |-> r.conn.msgs]]
    /\ UNCHANGED <<trip, proxyVars>>

EnvParse(frames) ==
    [clients |-> 0, conns |-> 0, databases |-> {},
     nClientFrames |-> 0, nServerFrames |-> 0,
     clientFrames |-> {}, serverFrames |-> {},
     closes |-> FALSE, cuts |-> {}, timeouts |-> 0,
     signals |-> 0, reloads |-> 0, streams |-> StreamsOf(frames)]

NextParse ==
    \/ \E stream \in StreamsOf(ParseFrames \cup InvalidFrames) : FeedStart(stream)
    \/ \E k \in 1..(MaxParseFrames * Len(DataRow)) : FeedChunk(k)

\* Streams of frames with declared lengths of 4 or more.
InitParse == InitProxy /\ env = EnvParse(ParseFrames)
SpecParse == InitParse /\ [][NextParse]_vars

\* Streams in which a frame may declare a length of less than 4.
InitParseAny == InitProxy /\ env = EnvParse({Terminate, Query} \cup InvalidFrames)
SpecParseAny == InitParseAny /\ [][NextParse]_vars

(***************************************************************************)
(* A StartupMessage on its own: as_bytes, then parse_startup by a new      *)
(* parser of all the bytes.                                                *)
(***************************************************************************)
MaxParameters == 2

\* Keys with no zero byte and at least one byte, values with no zero byte.
ParameterKeys == {<<97>>, <<98>>, <<97, 98>>}
ParameterValues == {<<>>, <<97>>, <<97, 98, 99>>}
ProtocolVersions == {ProtocolVersion3, CANCEL_REQUEST_VERSION, SSL_REQUEST_VERSION, -1}

\* The maps from at most MaxParameters of the keys to values, as sets of
\* <<key, value>>.
ParameterMaps ==
    UNION {{{<<k, f[k]>> : k \in keys} : f \in [keys -> ParameterValues]} :
              keys \in {ks \in SUBSET ParameterKeys : Cardinality(ks) <= MaxParameters}}

StartupMessages ==
    {StartupMessage(v, ps) : v \in ProtocolVersions, ps \in ParameterMaps}

Encode(sm) ==
    /\ trip = NoTrip
    /\ trip' = [message |-> sm, bytes |-> as_bytes(sm), parsed |-> FALSE, result |-> NoResult]
    /\ UNCHANGED <<feed, proxyVars>>

Decode ==
    /\ trip # NoTrip /\ ~trip.parsed
    /\ trip' = [trip EXCEPT !.parsed = TRUE, !.result = ParseStartup(trip.bytes, NewParser)]
    /\ UNCHANGED <<feed, proxyVars>>

\* The first read of a client brings `bytes`, which need not come from as_bytes.
Receive(bytes) ==
    /\ trip = NoTrip
    /\ bytes # <<>>
    /\ trip' = [message |-> NoTrip.message, bytes |-> bytes, parsed |-> FALSE,
                result |-> NoResult]
    /\ UNCHANGED <<feed, proxyVars>>

\* Packets that look like requests but are none: the version of a
\* CancelRequest with length 8, that of an SSLRequest with length 16, and an
\* SSLRequest with the StartupMessage behind it in the same read.
CancelVersionShort == WriteI32(8) \o WriteI32(CANCEL_REQUEST_VERSION)
SslVersionLong == WriteI32(16) \o WriteI32(SSL_REQUEST_VERSION) \o WriteI32(1) \o WriteI32(2)
SslThenStartup == SSLRequest \o StartupWithoutDatabase

\* Every prefix of a startup packet that a read may bring.
StartupBuffers ==
    UNION {{SubSeq(packet, 1, k) : k \in 1..Len(packet)} :
              packet \in {StartupMessageFor("a"), StartupWithoutDatabase, SSLRequest,
                          CancelRequest, CancelVersionShort, SslVersionLong, SslThenStartup}}

NextStartupParse ==
    \/ \E bytes \in StartupBuffers : Receive(bytes)
    \/ Decode

EnvRoundTrip ==
    [clients |-> 0, conns |-> 0, databases |-> {},
     nClientFrames |-> 0, nServerFrames |-> 0,
     clientFrames |-> {}, serverFrames |-> {},
     closes |-> FALSE, cuts |-> {}, timeouts |-> 0,
     signals |-> 0, reloads |-> 0]

NextRoundTrip ==
    \/ \E sm \in StartupMessages : Encode(sm)
    \/ Decode

InitRoundTrip == InitProxy /\ env = EnvRoundTrip
SpecRoundTrip == InitRoundTrip /\ [][NextRoundTrip]_vars

SpecStartupParse == InitRoundTrip /\ [][NextStartupParse]_vars

(***************************************************************************)
(* Reloads: the configuration file is edited, SIGHUPs make the reload task *)
(* load it, and a client connects, which makes get_pool read the pool size *)
(* of its database from the live configuration.                            *)
(***************************************************************************)
EnvReload ==
    [clients |-> 1, conns |-> 1, databases |-> Databases,
     nClientFrames |-> 0, nServerFrames |-> 0,
     clientFrames |-> {}, serverFrames |-> {},
     closes |-> FALSE, cuts |-> {}, timeouts |-> 0,
     signals |-> 0, reloads |-> MaxReloads + 1]

InitReload == InitProxy /\ env = EnvReload

NextReload ==
    \/ \E content \in FileContents : EditFile(content)
    \/ Sighup
    \/ Accept
    \/ \E s \in Sessions, d \in Databases : Startup(s, d)
    \/ \E s \in Sessions : GetPoolLock(s)
    \/ \E s \in Sessions : GetPoolBuild(s)

SpecReload == InitReload /\ [][NextReload]_vars

(***************************************************************************)
(* The drain: the whole proxy for one client of one database, where the    *)
(* network may deliver what a peer sent in two reads.  Every task that can *)
(* take a step is scheduled: the main task at its two selects, a           *)
(* session at each of its awaits (a checkout ends by a connection or by    *)
(* its timeout, the shutdown branch of the idle select is ready once the   *)
(* broadcast is sent), and a client completes or abandons its handshake.   *)
(* Signals, frames and what the peers send next are under no obligation.   *)
(***************************************************************************)
EnvDrain ==
    [clients |-> 1, conns |-> 2, databases |-> {"a"},
     nClientFrames |-> MaxClientFrames, nServerFrames |-> MaxServerFrames,
     clientFrames |-> {Query}, serverFrames |-> {ReadyForQueryIdle},
     closes |-> FALSE, cuts |-> {HeaderLen}, timeouts |-> 0,
     signals |-> MaxSignals, reloads |-> 0]

InitDrain == InitProxy /\ env = EnvDrain

\* The steps session s takes by itself once the await it stands at is ready.
SessionStep(s) ==
    \/ StartupFail(s)
    \/ \E d \in Databases : Startup(s, d)
    \/ GetPoolLock(s)
    \/ GetPoolBuild(s)
    \/ \E c \in ConnIds : GetProbeFail(s, c)
    \/ GetFail(s)
    \/ HsCheckout(s)
    \/ HsParams(s)
    \/ TxCheckout(s)
    \/ ShutdownExit(s)
    \/ TxClient(s)
    \/ TxServer(s)

Scheduling ==
    /\ WF_vars(MainShutdown)
    /\ WF_vars(WaitDone)
    /\ WF_vars(SignalWhileDraining)
    /\ \A s \in Sessions : WF_vars(SessionStep(s))

SpecDrain == InitDrain /\ [][Next]_vars /\ Scheduling

(***************************************************************************)
(* What a byte stream holds, read off the stream itself: its complete      *)
(* frames in order, whatever the reads that delivered it.                  *)
(***************************************************************************)
Holds(bytes, frame) == \E i \in 1..Len(FramesOf(bytes)) : FramesOf(bytes)[i] = frame

IsPrefix(a, b) == Len(a) <= Len(b) /\ a = SubSeq(b, 1, Len(a))

\* The bytes read from connection c so far, and those read since position from.
ReadFrom(c, from, upto) == SubSeq(srvStream[c], from + 1, upto)

(***************************************************************************)
(* Properties of the pool.                                                 *)
(***************************************************************************)
\* C1: when a borrowed connection goes back to its pool it is retired if its
\* broken flag or its in-transaction flag is set at that moment and is put back
\* idle otherwise; a retired connection is never idle or held again.
C1_ReturnStep ==
    \A c \in ConnIds :
       /\ (connState[c] = "held" /\ connState'[c] # "held") =>
             connState'[c] = (IF server'[c].is_broken \/ server'[c].is_active_transaction
                              THEN "retired" ELSE "idle")
       /\ connState[c] = "retired" => connState'[c] = "retired"

C1_ReturnRetiresOrReinserts == [][C1_ReturnStep]_vars

\* A connection retired with only its in-transaction flag set, beside a connection
\* that was put back idle after a transaction.
C1_Witness ==
    \E c, e \in ConnIds :
       /\ connState[c] = "retired"
       /\ server[c].is_active_transaction /\ ~server[c].is_broken
       /\ connState[e] = "idle" /\ srvPos[e] > 0

\* C3: no two sessions hold the same server connection, a connection a session
\* holds is not in its pool's idle queue, and while a connection is idle no bytes
\* are read from it and its framing state does not change.
C3_Exclusive ==
    /\ \A s, t \in Sessions : (s # t /\ borrowed[s] # 0) => borrowed[s] # borrowed[t]
    /\ \A s \in Sessions : borrowed[s] # 0 => connState[borrowed[s]] = "held"

C3_IdleStep ==
    \A c \in ConnIds :
       (connState[c] = "idle" /\ connState'[c] = "idle") =>
          (srvPos'[c] = srvPos[c] /\ server'[c] = server[c])

C3_OneHolder == []C3_Exclusive /\ [][C3_IdleStep]_vars

\* One session holds the pool's connection while another session of the same pool
\* is at its checkout.
C3_Witness ==
    \E s, t \in Sessions :
       /\ s # t /\ borrowed[s] # 0 /\ handle[t] = handle[s]
       /\ pc[t] \in {"hs_get", "get"}

\* C4: the idle and held connections of a pool never exceed the pool size the
\* configuration carried when the pool was built, whatever it carries now.
C4_Bounded ==
    \A p \in PoolIds : poolMax[p] # 0 => Cardinality(LiveOf(p)) <= poolMax[p]

\* A session waits at its checkout: its pool is at its bound with nothing idle,
\* and the live configuration already carries a larger size.
C4_Witness ==
    \E s \in Sessions :
       /\ pc[s] = "get" /\ IdleOf(handle[s]) = {}
       /\ Cardinality(LiveOf(handle[s])) = poolMax[handle[s]]
       /\ config[db[s]] > poolMax[handle[s]]

(***************************************************************************)
(* Properties of the registry, of shutdown and of the drain.               *)
(***************************************************************************)
\* C5: the registry holds at most one pool per database name: an entry, once
\* inserted, is never removed or replaced, two databases never share a pool, and
\* every handle get_pool has returned is the registry's entry for its database.
C5_EntryStep ==
    \A d \in Databases : pools[d] # 0 => pools'[d] = pools[d]

C5_Handles ==
    /\ \A s \in Sessions : handle[s] # 0 => handle[s] = pools[db[s]]
    /\ \A d, e \in Databases : (d # e /\ pools[d] # 0) => pools[d] # pools[e]

C5_OnePoolPerDatabase == []C5_Handles /\ [][C5_EntryStep]_vars

\* Two sessions that named the same database hold the same handle, after one of
\* them met the other at the registry's lock.
C5_Witness ==
    \E s, t \in Sessions :
       /\ s # t /\ db[s] = db[t]
       /\ handle[s] # 0 /\ handle[s] = handle[t]

\* C6: a session leaves by the shutdown branch only from its idle read, holding
\* no server, after the broadcast; a session that is inside a transaction after
\* the broadcast leaves the transaction loop only by an error or a panic, or for
\* the idle point, once a ReadyForQuery with status 'I' has been read from its
\* server, with that server put back idle, in_transaction false.
C6_Step ==
    \A s \in Sessions :
       /\ (exit[s] # "shutdown" /\ exit'[s] = "shutdown") =>
             (pc[s] = "idle" /\ borrowed[s] = 0 /\ shutdownSent)
       /\ (shutdownSent /\ pc[s] = "tx" /\ pc'[s] # "tx") =>
             \/ /\ pc'[s] = "idle"
                /\ connState'[borrowed[s]] = "idle"
                /\ ~server'[borrowed[s]].is_active_transaction
                /\ Holds(ReadFrom(borrowed[s], 0, srvPos'[borrowed[s]]), ReadyForQueryIdle)
             \/ pc'[s] = "done" /\ exit'[s] \in {"error", "panic"}

C6_ShutdownOnlyAtIdle == [][C6_Step]_vars

\* After the broadcast one session has left by the shutdown branch while another
\* is still inside its transaction.
C6_Witness ==
    \E s, t \in Sessions : shutdownSent /\ exit[s] = "shutdown" /\ pc[t] = "tx"

\* C8: the process has left its drain wait only with every Worker dropped, or
\* because a signal arrived during the wait: the second one after a shutdown
\* signal, the first one after the listener had ended by itself.
C8_ExitDrainedOrSignalled ==
    mainPc = "done" => (workers = {} \/ sigTaken >= (IF shutdownSent THEN 2 ELSE 1))

\* The process has exited on the second signal while a session is still inside a
\* transaction.
C8_Witness ==
    /\ mainPc = "done" /\ shutdownSent /\ sigTaken = 2
    /\ \E s \in Sessions : s \in workers /\ pc[s] = "tx"

(***************************************************************************)
(* Properties of the relay.                                                *)
(***************************************************************************)
\* C2: the checkout of a transaction sets in_transaction before client bytes
\* are written to the server, and bytes are written only to a server that has it
\* set; the flag of a connection goes back to false only once a ReadyForQuery
\* with status 'I' has been read from that connection; a session that stays in
\* its transaction keeps the same server; a connection held for a transaction
\* becomes idle in its pool only with the flag false, after such a frame.
C2_Step ==
    /\ \A s \in Sessions :
          /\ (pc[s] = "get" /\ pc'[s] = "tx") =>
                server'[borrowed'[s]].is_active_transaction
          /\ (pc[s] = "tx" /\ pc'[s] # "done" /\ toServer'[s] # toServer[s]) =>
                server[borrowed[s]].is_active_transaction
          /\ (pc'[s] # "done" /\ toServer'[s] # toServer[s]) => pc[s] \in {"get", "tx"}
          /\ (pc[s] = "tx" /\ pc'[s] = "tx") =>
                (borrowed'[s] = borrowed[s] /\ connState'[borrowed[s]] = "held")
    /\ \A c \in ConnIds :
          /\ (server[c].is_active_transaction /\ ~server'[c].is_active_transaction) =>
                Holds(ReadFrom(c, 0, srvPos'[c]), ReadyForQueryIdle)
          /\ (connState[c] = "held" /\ server[c].is_active_transaction
                 /\ connState'[c] = "idle") =>
                (/\ ~server'[c].is_active_transaction
                 /\ Holds(ReadFrom(c, 0, srvPos'[c]), ReadyForQueryIdle))

C9_IdleFrameEndsTransaction ==
    \A s \in Sessions :
       pc[s] = "tx" =>
          ~Holds(ReadFrom(borrowed[s], txBase[s], srvPos[borrowed[s]]), ReadyForQueryIdle)

\* C10: for a session that is ready, the bytes written to servers are a prefix
\* of the bytes read from its client, and the bytes written to its client are a
\* prefix of the bytes read from servers.
C10_WrittenIsPrefixOfRead ==
    \A s \in Sessions :
       Ready(s) =>
          /\ IsPrefix(toServer[s], SubSeq(cliStream[s], 1, cliPos[s]))
          /\ IsPrefix(toClient[s], fromServer[s])

(***************************************************************************)
(* The drain after the first shutdown signal.                              *)
(***************************************************************************)
\* The backend of session s has completed the open transaction: it has sent
\* a whole ReadyForQuery with status 'I' since the transaction began.
BackendCompleted(s) ==
    Holds(ReadFrom(borrowed[s], txBase[s], Len(srvStream[borrowed[s]])), ReadyForQueryIdle)

\* C7: once the shutdown broadcast is sent the accept loop has stopped, and, if
\* the backend of every transaction that is open completes it, every session
\* task ends and the process leaves its drain wait.
C7_Drains ==
    /\ [](shutdownSent => mainPc # "listen")
    /\ (\A s \in Sessions : (pc[s] = "tx") ~> (pc[s] # "tx" \/ BackendCompleted(s)))
          => (shutdownSent ~> (mainPc = "done"))

(***************************************************************************)
(* Frames that arrive in pieces.                                           *)
(***************************************************************************)
\* The number of bytes of a stream that belong to its complete frames.
RECURSIVE WholeFramesLen(_)
WholeFramesLen(bytes) ==
    IF Len(bytes) < 5 \/ Len(bytes) < FrameSize(bytes)
    THEN 0
    ELSE FrameSize(bytes) + WholeFramesLen(SubSeq(bytes, FrameSize(bytes) + 1, Len(bytes)))

\* Session s waits in its transaction loop and has read all that its client and
\* its server have sent.
Quiet(s) ==
    /\ pc[s] = "tx"
    /\ cliPos[s] = Len(cliStream[s])
    /\ srvPos[borrowed[s]] = Len(srvStream[borrowed[s]])

\* C11: when no write has timed out and a session waits in its transaction loop
\* with nothing left to read, what it has written to each side is a prefix of
\* what it has read for that side and covers every frame it has read whole,
\* whatever the reads that delivered the frame.
C11_SplitFramesRelayed ==
    \A s \in Sessions :
       (Quiet(s) /\ timeouts = 0) =>
          /\ IsPrefix(toClient[s], fromServer[s])
          /\ WholeFramesLen(fromServer[s]) <= Len(toClient[s])
          /\ IsPrefix(toServer[s], SubSeq(cliStream[s], 1, cliPos[s]))
          /\ WholeFramesLen(SubSeq(cliStream[s], 1, cliPos[s])) <= Len(toServer[s])

(***************************************************************************)
(* Properties of the idle point.                                           *)
(***************************************************************************)
\* The client's framing state is that of a connection between frames.
BetweenFrames(conn) ==
    conn.incomplete_buffer = <<>> /\ conn.parser = NewParser /\ conn.msgs = <<>>

\* The bytes the client of s has sent and the session has not read.
Pending(s) == SubSeq(cliStream[s], cliPos[s] + 1, Len(cliStream[s]))

\* The length of the shortest prefix of a stream that is a run of Query frames
\* followed by one Terminate frame; 0 when the stream has no such prefix.
RECURSIVE QueriesThenTerminate(_)
QueriesThenTerminate(bytes) ==
    IF Len(bytes) < 5 \/ Len(bytes) < FrameSize(bytes) THEN 0
    ELSE IF bytes[1] = TagX THEN FrameSize(bytes)
    ELSE IF bytes[1] = TagQ
    THEN LET rest == QueriesThenTerminate(SubSeq(bytes, FrameSize(bytes) + 1, Len(bytes)))
         IN IF rest = 0 THEN 0 ELSE FrameSize(bytes) + rest
    ELSE 0

\* C12: a session ends by the Terminate return only from its idle point, holding
\* no server, and the step checks nothing out; and when the bytes a client has
\* pending at the idle point are Query frames followed by a Terminate, the idle
\* read either ends the session by that return, with no connection checked out
\* and nothing written to a backend, or has read fewer bytes than hold the
\* Terminate.
C12_Step ==
    \A s \in Sessions :
       /\ (exit[s] # "close" /\ exit'[s] = "close") =>
             /\ pc[s] = "idle" /\ borrowed[s] = 0
             /\ connState' = connState /\ server' = server
       /\ (/\ pc[s] = "idle" /\ pc'[s] # "idle" /\ exit'[s] # "shutdown"
           /\ BetweenFrames(client[s])
           /\ QueriesThenTerminate(Pending(s)) > 0) =>
             \/ /\ pc'[s] = "done" /\ exit'[s] = "close"
                /\ connState' = connState /\ server' = server
             \/ /\ pc'[s] = "get" /\ borrowed'[s] = 0
                /\ toServer'[s] = toServer[s]
                /\ cliPos'[s] - cliPos[s] < QueriesThenTerminate(Pending(s))

C12_TerminateAtIdle == [][C12_Step]_vars

\* A session has ended by the Terminate return after its client had sent two
\* frames, and no backend has sent anything: it never completed a transaction.
C12_Witness ==
    \E s \in Sessions :
       /\ exit[s] = "close" /\ clientFrames = 2 /\ serverFrames = 0
       /\ \A c \in ConnIds : connState[c] # "held"

\* The length of the shortest prefix of a stream that is a run of Query frames
\* followed by the tag and the length of a frame that is neither a Query nor a
\* Terminate; 0 when the stream has no such prefix.
RECURSIVE QueriesThenOther(_)
QueriesThenOther(bytes) ==
    IF Len(bytes) < 5 THEN 0
    ELSE IF bytes[1] \notin {TagQ, TagX} THEN 5
    ELSE IF bytes[1] = TagQ /\ Len(bytes) >= FrameSize(bytes)
    THEN LET rest == QueriesThenOther(SubSeq(bytes, FrameSize(bytes) + 1, Len(bytes)))
         IN IF rest = 0 THEN 0 ELSE FrameSize(bytes) + rest
    ELSE 0

\* Nothing but session s itself changes: the other sessions, the accept loop, the
\* registry and every server connection are as they were.
OnlySessionEnds(s) ==
    /\ workers' = workers \ {s}
    /\ mainPc' = mainPc /\ shutdownSent' = shutdownSent
    /\ pools' = pools /\ mutex' = mutex
    /\ connState' = connState /\ server' = server /\ srvPos' = srvPos
    /\ \A t \in Sessions \ {s} :
          /\ pc'[t] = pc[t] /\ exit'[t] = exit[t] /\ borrowed'[t] = borrowed[t]
          /\ client'[t] = client[t] /\ cliPos'[t] = cliPos[t]
          /\ toServer'[t] = toServer[t] /\ toClient'[t] = toClient[t]

\* C13: a session ends by the idle point's panic only from its idle point,
\* holding no server, and that step changes nothing but the session itself; and
\* when the bytes a client has pending at the idle point are Query frames
\* followed by a frame that is neither Query nor Terminate, the idle read either
\* ends the session that way, with no connection checked out and nothing
\* written to a backend, or has read fewer bytes than hold that frame's tag and
\* length.
C13_Step ==
    \A s \in Sessions :
       /\ (exit[s] # "violation" /\ exit'[s] = "violation") =>
             /\ pc[s] = "idle" /\ borrowed[s] = 0 /\ pc'[s] = "done"
             /\ OnlySessionEnds(s)
       /\ (/\ pc[s] = "idle" /\ pc'[s] # "idle" /\ exit'[s] # "shutdown"
           /\ BetweenFrames(client[s])
           /\ QueriesThenOther(Pending(s)) > 0) =>
             \/ /\ pc'[s] = "done" /\ exit'[s] = "violation"
                /\ OnlySessionEnds(s)
             \/ /\ pc'[s] = "get" /\ borrowed'[s] = 0
                /\ toServer'[s] = toServer[s]
                /\ cliPos'[s] - cliPos[s] < QueriesThenOther(Pending(s))

C13_OtherTagAtIdle == [][C13_Step]_vars

\* One session has ended by the idle point's panic; the accept loop still runs
\* and another session is inside a transaction.
C13_Witness ==
    \E s, t \in Sessions :
       /\ exit[s] = "violation"
       /\ mainPc = "listen" /\ Listener \in workers
       /\ pc[t] = "tx" /\ toServer[t] # <<>>

(***************************************************************************)
(* The fatal ends of a transaction.                                        *)
(***************************************************************************)
\* The bytes the client of s has pending begin with a whole Terminate frame.
TerminatePending(s) ==
    /\ Len(Pending(s)) >= 5
    /\ SubSeq(Pending(s), 1, 5) = Terminate

\* C14: a session that leaves its transaction by ending ends by an error or a
\* panic, and the server it held is retired with in_transaction still true; a
\* retired connection stays retired; and a session inside a transaction whose
\* client has a Terminate pending does not read that Terminate and go on: a
\* step that keeps the session alive has read fewer bytes than the Terminate.
C14_Step ==
    /\ \A c \in ConnIds : connState[c] = "retired" => connState'[c] = "retired"
    /\ \A s \in Sessions :
          /\ (pc[s] = "tx" /\ pc'[s] = "done") =>
                /\ exit'[s] \in {"error", "panic"}
                /\ connState'[borrowed[s]] = "retired"
                /\ server'[borrowed[s]].is_active_transaction
          /\ (/\ pc[s] = "tx" /\ pc'[s] # "done"
              /\ BetweenFrames(client[s]) /\ TerminatePending(s)) =>
                cliPos'[s] - cliPos[s] < 5

C14_FatalInTransaction == [][C14_Step]_vars

(***************************************************************************)
(* The probe at checkout.                                                  *)
(***************************************************************************)
\* What a read of the socket of connection c would meet.
SocketClosed(c) == srvPos[c] = Len(srvStream[c]) /\ srvEof[c]
SocketReadable(c) == srvPos[c] < Len(srvStream[c])
SocketWouldBlock(c) == ~SocketClosed(c) /\ ~SocketReadable(c)

\* C15: a connection goes from its pool's idle queue to a borrower only if a
\* read of its socket would block at that moment, and leaves the idle queue
\* retired only if its socket is closed or readable; a checkout dials a new
\* connection only when the pool has no idle connection left, and fails only
\* then: an idle connection whose read would block is handed out.
C15_Step ==
    /\ \A c \in ConnIds :
          /\ (connState[c] = "idle" /\ connState'[c] = "held") => SocketWouldBlock(c)
          /\ (connState[c] = "idle" /\ connState'[c] = "retired") =>
                (SocketClosed(c) \/ SocketReadable(c))
          /\ (connState[c] = "idle" /\ connState'[c] # "idle") =>
                \E s \in Sessions : AtGet(s) /\ handle[s] = connPool[c]
    /\ \A s \in Sessions :
          /\ (AtGet(s) /\ borrowed'[s] # 0 /\ connState[borrowed'[s]] = "unused") =>
                IdleOf(handle[s]) = {}
          /\ (AtGet(s) /\ pc'[s] = "done") => IdleOf(handle[s]) = {}

C15_ProbeAtCheckout == [][C15_Step]_vars

\* A connection has been retired by the probe (neither flag is set) and another
\* connection of the same pool is held by a session.
C15_Witness ==
    \E c, e \in ConnIds :
       /\ connState[c] = "retired"
       /\ ~server[c].is_broken /\ ~server[c].is_active_transaction
       /\ connState[e] = "held" /\ connPool[e] = connPool[c]

(***************************************************************************)
(* Properties of the server-side handshake.                                *)
(***************************************************************************)
\* C16: when a connection that is connecting has read all its backend sent and
\* the backend has closed, the read ends the connect with the connection marked
\* broken, its descriptor queue, its carried bytes and its parser state as they
\* were.
C16_Step ==
    \A c \in ConnIds :
       (connState[c] = "connecting" /\ SocketClosed(c) /\ connState'[c] # "connecting") =>
          /\ connState'[c] = "failed"
          /\ server'[c].is_broken
          /\ server'[c].msgs = server[c].msgs
          /\ server'[c].incomplete_buffer = server[c].incomplete_buffer
          /\ server'[c].parser = server[c].parser
          /\ srvPos'[c] = srvPos[c]

C16_EofMarksBroken == [][C16_Step]_vars

\* A connect has ended at the end of file with a frame half read: bytes are
\* carried over and the parser is inside a frame.
C16_Witness ==
    \E c \in ConnIds :
       /\ connState[c] = "failed" /\ server[c].is_broken
       /\ server[c].incomplete_buffer # <<>>
       /\ server[c].parser.current_msg_type # NoType

\* The frames of a stream that precede its first ReadyForQuery with status 'I'.
RECURSIVE BeforeReady(_)
BeforeReady(frames) ==
    IF frames = <<>> \/ Head(frames) = ReadyForQueryIdle THEN <<>>
    ELSE <<Head(frames)>> \o BeforeReady(Tail(frames))

\* The <<key, value>> pair a ParameterStatus frame carries.
ParameterOf(frame) ==
    LET key_end == CStrEnd(frame, 5)
    IN <<BufSlice(frame, 5, key_end), BufSlice(frame, key_end + 1, CStrEnd(frame, key_end + 1))>>

\* C20: a connect returns its connection to the pool only once a whole
\* ReadyForQuery with status 'I' has been read from the backend, with neither
\* flag set and with the parameter of every ParameterStatus frame read before
\* it in the connection's map; and while the backend sends none but
\* AuthenticationOk, ParameterStatus, BackendKeyData and ReadyForQuery frames a
\* connect fails only at the end of file.
C20_Step ==
    \A c \in ConnIds :
       /\ (connState[c] = "connecting" /\ connState'[c] = "idle") =>
             LET read == FramesOf(ReadFrom(c, 0, srvPos'[c]))
             IN /\ \E i \in 1..Len(read) : read[i] = ReadyForQueryIdle
                /\ ~server'[c].is_broken /\ ~server'[c].is_active_transaction
                /\ \A i \in 1..Len(BeforeReady(read)) :
                      BeforeReady(read)[i][1] = TagS =>
                         ParameterOf(BeforeReady(read)[i]) \in server'[c].server_parameters
       /\ (connState[c] = "connecting" /\ connState'[c] \in {"failed", "panicked"}) =>
             SocketClosed(c)

C20_ConnectReturnsReady == [][C20_Step]_vars

(***************************************************************************)
(* The writes of a session seen from outside: the bytes that reach the     *)
(* peer and the count of writes that returned the timeout value.           *)
(***************************************************************************)
\* What a history has gained in a step.
Grown(old, new) == SubSeq(new, Len(old) + 1, Len(new))

\* The payload of the write that follows a read of session s from its client in
\* a step: the bytes the read has parsed, at the head of the client's buffer.
ClientPayload(s) ==
    SubSeq(client'[s].buffer, 1,
           Len(client[s].incomplete_buffer) + (cliPos'[s] - cliPos[s])
              - Len(client'[s].incomplete_buffer))

\* The same for a read from the server connection c.
ServerPayload(c) ==
    SubSeq(server'[c].buffer, 1,
           Len(server[c].incomplete_buffer) + (srvPos'[c] - srvPos[c])
              - Len(server'[c].incomplete_buffer))

\* A proper prefix of the payload has been written and the timeout reported.
TimedOut(old, new, payload) ==
    /\ timeouts' = timeouts + 1
    /\ IsPrefix(old, new)
    /\ IsPrefix(Grown(old, new), payload) /\ Len(Grown(old, new)) < Len(payload)

\* The whole payload has been written and no timeout reported.
WrittenInFull(old, new, payload) == timeouts' = timeouts /\ new = old \o payload

\* C17: a write with a timeout either writes its whole payload and returns its
\* length or writes a proper prefix of it and returns the timeout value; a write
\* with no timeout writes its whole payload and never returns the timeout value;
\* and a write returns an error only when the peer has closed the socket.
C17_Step ==
    \A s \in Sessions :
       LET c == borrowed[s]
       IN /\ (pc[s] = "get" /\ pc'[s] = "tx") =>
                LET payload == SubSeq(client[s].buffer, 1, nParsed[s])
                IN \/ WrittenInFull(toServer[s], toServer'[s], payload)
                   \/ TimedOut(toServer[s], toServer'[s], payload)
          /\ (pc[s] = "tx" /\ pc'[s] # "done" /\ cliPos'[s] # cliPos[s]) =>
                /\ toClient'[s] = toClient[s]
                /\ \/ WrittenInFull(toServer[s], toServer'[s], ClientPayload(s))
                   \/ TimedOut(toServer[s], toServer'[s], ClientPayload(s))
          /\ (pc[s] = "tx" /\ pc'[s] # "done" /\ srvPos'[c] # srvPos[c]) =>
                /\ toServer'[s] = toServer[s]
                /\ WrittenInFull(toClient[s], toClient'[s], ServerPayload(c))
          /\ (pc[s] = "tx" /\ exit'[s] = "error") =>
                /\ timeouts' = timeouts
                /\ cliEof[s] \/ srvEof[c]

C17_WriteOutcomes == [][C17_Step]_vars

\* A write has returned the timeout value with a proper prefix written, and a
\* write with no timeout has written its payload.
C17_Witness ==
    \E s \in Sessions :
       /\ timeouts > 0
       /\ pc[s] = "tx"
       /\ ~IsPrefix(SubSeq(cliStream[s], 1, cliPos[s]), toServer[s])
       /\ toClient[s] # <<>>

(***************************************************************************)
(* Properties of the handshake of a client.                                *)
(***************************************************************************)
\* What the client has been sent since its StartupMessage was read: all that
\* the handshake has written but the 'N' that answered an SSLRequest.
Answer(sent) == IF IsPrefix(SslDenied, sent) THEN Grown(SslDenied, sent) ELSE sent

InHandshake(s) ==
    pc[s] \in {"startup", "startup_ssl", "get_pool", "no_pool", "build", "hs_get",
               "hs_params", "hs_ready"}

\* The bytes are ParameterStatus frames, one for each entry of params, and
\* nothing else.
OnePerParameter(bytes, params) ==
    LET frames == FramesOf(bytes)
    IN /\ WholeFramesLen(bytes) = Len(bytes)
       /\ Len(frames) = Cardinality(params)
       /\ {frames[i] : i \in 1..Len(frames)}
             = {ServerParameterMessage(kv[1], kv[2]) : kv \in params}

\* C18: in answer to its StartupMessage a client whose handshake succeeds is
\* sent AuthenticationOk, then one ParameterStatus for each parameter cached in
\* a connection checked out from the pool of the database it asked for, then
\* ReadyForQuery with status 'I', and nothing else; that connection is back in
\* its pool before ReadyForQuery is written; and a handshake that ends at the
\* pool lookup or at the checkout has written no ReadyForQuery.
C18_Step ==
    \A s \in Sessions :
       LET c == borrowed[s]
           before == Answer(startupSent[s])
           after == Answer(startupSent'[s])
       IN /\ (pc[s] = "hs_params" /\ pc'[s] # "hs_params") =>
                /\ connPool[c] = pools[db[s]]
                /\ before = AuthenticationOk
                /\ borrowed'[s] = 0 /\ connState'[c] # "held"
                /\ pc'[s] = "hs_ready" =>
                      /\ IsPrefix(before, after)
                      /\ OnePerParameter(Grown(before, after), server[c].server_parameters)
          /\ (InHandshake(s) /\ pc'[s] = "idle") =>
                /\ c = 0 /\ \A e \in ConnIds : connState[e] # "held"
                /\ after = before \o ReadyForQueryIdle
                /\ IsPrefix(AuthenticationOk, before)
                /\ \A i \in 1..Len(FramesOf(Grown(AuthenticationOk, before))) :
                      FramesOf(Grown(AuthenticationOk, before))[i][1] = TagS
                /\ WholeFramesLen(before) = Len(before)
          /\ (InHandshake(s) /\ pc'[s] = "done") =>
                /\ startupSent'[s] = startupSent[s]
                /\ ~Holds(after, ReadyForQueryIdle)
          /\ (InHandshake(s) /\ pc[s] # "hs_ready") => ~Holds(after, ReadyForQueryIdle)

C18_HandshakeAnswer == [][C18_Step]_vars

\* A handshake has succeeded with two parameters sent to the client.
C18_Witness ==
    \E s \in Sessions :
       /\ pc[s] = "idle"
       /\ startupSent[s] = AuthenticationOk \o ParameterStatus \o ParameterStatusB
                              \o ReadyForQueryIdle

\* What the read of a startup packet leads to, after `sent` has been written: a
\* whole StartupMessage is answered by AuthenticationOk and names the database
\* of the session, anything else ends the handshake with nothing written; and
\* so does a write that fails.
AfterStartupPacket(s, sent) ==
    \/ /\ pc'[s] = "done" /\ exit'[s] \in {"handshake", "startup_panic"}
       /\ startupSent'[s] = sent
    \/ /\ \/ \E d \in Databases : /\ startupPacket[s] = StartupMessageFor(d)
                                  /\ pc'[s] = "get_pool" /\ db'[s] = d
          \/ /\ startupPacket[s] = StartupWithoutDatabase
             /\ pc'[s] = "no_pool"
       /\ startupSent'[s] = sent \o AuthenticationOk
       /\ startupPacket'[s] = <<>>
       /\ client'[s].parser = NewParser

\* C19: a first startup packet that is an SSLRequest is answered by the one byte
\* 'N', the parser is as new, and one more startup packet is read: a whole
\* StartupMessage is treated as one that came first is, and a second
\* SSLRequest, a CancelRequest or a packet that is not whole ends the handshake
\* with nothing more written.
C19_Step ==
    \A s \in Sessions :
       /\ (pc[s] = "startup" /\ startupPacket[s] = SSLRequest /\ pc'[s] # "startup") =>
             \/ /\ pc'[s] = "startup_ssl"
                /\ startupSent'[s] = SslDenied
                /\ startupPacket'[s] = <<>>
                /\ client'[s].parser = NewParser
             \/ /\ pc'[s] = "done" /\ exit'[s] = "handshake"
                /\ startupSent'[s] = <<>>
       /\ (pc[s] = "startup" /\ startupPacket[s] \notin {<<>>, SSLRequest}
              /\ pc'[s] # "startup") => AfterStartupPacket(s, <<>>)
       /\ pc[s] = "startup_ssl" => startupSent[s] = SslDenied
       /\ (pc[s] = "startup_ssl" /\ startupPacket[s] # <<>> /\ pc'[s] # "startup_ssl") =>
             AfterStartupPacket(s, SslDenied)

C19_SslRequestDenied == [][C19_Step]_vars

\* A handshake that began with an SSLRequest has succeeded.
C19_Witness ==
    \E s \in Sessions :
       /\ pc[s] = "idle"
       /\ IsPrefix(SslDenied \o AuthenticationOk, startupSent[s])

(***************************************************************************)
(* Properties of the server-side handshake.                                *)
(***************************************************************************)
\* An authentication request connect cannot answer: a password method when the
\* database has no password, or a code other than 0, 3 and 5.
Unanswerable(frame) ==
    /\ frame[1] = TagR
    /\ LET code == frame[9]
       IN (code \in {3, 5} /\ ~env.password) \/ code \notin {0, 3, 5}

\* The frame at which the loop over the frames of one read leaves connect:
\* ErrorResponse, ReadyForQuery or an authentication request that cannot be
\* answered; <<>> when there is none.
RECURSIVE Decisive(_)
Decisive(frames) ==
    IF frames = <<>> THEN <<>>
    ELSE IF Head(frames)[1] = TagE \/ Head(frames) = ReadyForQueryIdle \/ Unanswerable(Head(frames))
    THEN Head(frames)
    ELSE Decisive(Tail(frames))

\* The frames connection c reads in a step.
FramesRead(c) == FramesOf(ReadFrom(c, srvPos[c], srvPos'[c]))

\* A connect that has ended without a connection never gives one.
NeverPooled(c) == connState[c] \in {"failed", "panicked"} => connState'[c] = connState[c]

\* C21: a connect that reads an authentication request it cannot answer returns
\* an error, and the connection never enters the pool.
C21_Step ==
    \A c \in ConnIds :
       /\ (connState[c] = "connecting" /\ Decisive(FramesRead(c)) # <<>>
              /\ Unanswerable(Decisive(FramesRead(c)))) => connState'[c] = "failed"
       /\ NeverPooled(c)

C21_UnanswerableAuthFails == [][C21_Step]_vars

\* Connection c has failed at an ErrorResponse of its backend.
FailedOnError(c) ==
    /\ connState[c] = "failed"
    /\ Decisive(FramesOf(ReadFrom(c, 0, srvPos[c]))) = ErrorResponse

\* C22: a connect that reads an ErrorResponse returns an error and its
\* connection never enters the pool; and a session whose checkout ends after a
\* connect of its pool has failed so ends its task in an error, holding no
\* server connection.
C22_Step ==
    /\ \A c \in ConnIds :
          /\ (connState[c] = "connecting" /\ Decisive(FramesRead(c)) # <<>>
                 /\ Decisive(FramesRead(c))[1] = TagE) => connState'[c] = "failed"
          /\ FailedOnError(c) => connState'[c] = "failed"
    /\ \A s \in Sessions :
          (/\ AtGet(s) /\ pc'[s] = "done"
           /\ \E c \in ConnIds : FailedOnError(c) /\ connPool[c] = handle[s]) =>
             /\ exit'[s] \in {"handshake", "error"}
             /\ borrowed'[s] = 0
             /\ \A c \in ConnIds : connState'[c] # "held"

C22_ErrorResponseFailsConnect == [][C22_Step]_vars

\* A session has ended at its checkout of a transaction after the connect of
\* its pool failed at an ErrorResponse.
C22_Witness ==
    \E s \in Sessions, c \in ConnIds :
       /\ exit[s] = "error" /\ borrowed[s] = 0
       /\ FailedOnError(c) /\ connPool[c] = handle[s]

(***************************************************************************)
(* Properties of the reload task.                                          *)
(***************************************************************************)
\* C23: a SIGHUP that finds a file that does not load leaves the live
\* configuration as it was, and later SIGHUPs are still served; one that finds
\* a file that loads makes the live configuration the configuration of the
\* file, all of it in one step, so that whatever is read from the live
\* configuration is read from one file's configuration.
C23_Step ==
    /\ disk'.failed # disk.failed =>
          /\ disk.file = BadFile
          /\ config' = config /\ reloads' = reloads
    /\ reloads' # reloads =>
          /\ disk.file # BadFile
          /\ config' = disk.file[1]
    /\ config' # config => reloads' = reloads + 1
    /\ (disk.failed > 0 /\ disk.file # BadFile /\ reloads < env.reloads) => ENABLED Sighup
    /\ \A p \in PoolIds :
          poolMax'[p] # poolMax[p] =>
             \E d \in Databases : poolMax'[p] = config[d] /\ pools'[d] = p

C23_ReloadAllOrNothing == [][C23_Step]_vars

\* After a reload that failed a later one has replaced the configuration, and
\* a pool has been built with a size read from it.
C23_Witness ==
    /\ disk.failed > 0 /\ reloads > 0
    /\ config = [d \in Databases |-> 2]
    /\ \E p \in PoolIds : poolMax[p] = 2

(***************************************************************************)
(* Properties of parse, stated on the last call of the framed connection   *)
(* that is driven on its own.                                              *)
(***************************************************************************)
\* The last call and its descriptors.
Call == feed.last
Descriptors == DOMAIN Call.msgs
Called == Call.buffer # <<>>

\* Descriptor i of the last call begins at the tag of a frame, and the length
\* which that frame declares.
Opens(i) ==
    \/ Call.msgs[i].kind = "Message"
    \/ Call.msgs[i].kind = "Partial" /\ ~(i = 1 /\ Call.before.current_msg_type # NoType)
DeclaredLength(i) == ReadI32(Call.buffer, Call.msgs[i].start + 1)

\* The number of bytes descriptor i covers.
Span(i) == Call.msgs[i].end - Call.msgs[i].start + 1

\* C25: parse appends no descriptor for a frame whose declared length is less
\* than 4 (zero and negative lengths included): the call fails instead.
C25_InvalidFrameRejected == \A i \in Descriptors : Opens(i) => DeclaredLength(i) >= 4

\* C26: every Message descriptor spans the declared length of its frame plus
\* one byte, which is five bytes or more, and its tag is the byte at its start.
C26_CompleteSpan ==
    \A i \in Descriptors :
       Call.msgs[i].kind = "Message" =>
          /\ Span(i) = DeclaredLength(i) + 1
          /\ Span(i) >= 5
          /\ Call.msgs[i].tag = Call.buffer[Call.msgs[i].start + 1]

\* C27: the descriptors of one call lie inside the buffer, the count returned
\* is at most the length of the buffer, and the descriptors cover byte ranges
\* that start at offset 0, increase and leave no gap and no overlap.
C27_DescriptorsInBuffer ==
    /\ Call.n <= Len(Call.buffer)
    /\ \A i \in Descriptors :
          /\ Call.msgs[i].start <= Call.msgs[i].end
          /\ Call.msgs[i].end < Len(Call.buffer)
          /\ Call.msgs[i].start = IF i = 1 THEN 0 ELSE Call.msgs[i - 1].end + 1

\* A call has appended several descriptors, the first of which ends a frame
\* begun in an earlier call.
C27_Witness ==
    /\ Len(Call.msgs) >= 2
    /\ Call.msgs[1].kind = "PartialComplete"
    /\ Call.n < Len(Call.buffer)

\* The number of bytes that follow the whole frames of the buffer of the last
\* call.
Trailing == Len(Call.buffer) - WholeFramesLen(Call.buffer)

\* C28: on a buffer of fewer than five bytes parse returns 0 and appends
\* nothing; on whole frames followed by one to four bytes, parse at a frame
\* boundary returns the length of the whole frames and appends one Message for
\* each of them and nothing else.
C28_ShortTailLeft ==
    /\ (Called /\ Len(Call.buffer) < 5) => (Call.n = 0 /\ Call.msgs = <<>>)
    /\ (Call.before = NewParser /\ WholeFramesLen(Call.buffer) > 0 /\ Trailing \in 1..4) =>
          /\ Call.n = WholeFramesLen(Call.buffer)
          /\ Len(Call.msgs) = Len(FramesOf(Call.buffer))
          /\ \A i \in Descriptors : Call.msgs[i].kind = "Message"
          /\ feed.conn.incomplete_buffer
                = SubSeq(Call.buffer, Call.n + 1, Len(Call.buffer))

\* A call at a frame boundary has been given a whole frame and four bytes of
\* the next.
C28_Witness ==
    /\ Call.before = NewParser /\ Len(FramesOf(Call.buffer)) = 1 /\ Trailing = 4
    /\ Call.n = Len(Call.buffer) - 4 /\ Len(Call.msgs) = 1

\* What is left to read of the frame that was in progress when the last call
\* began.
Remaining == Call.before.current_msg_length - Call.before.current_msg_bytes_read

\* C29: of a frame that spans several calls, the call that begins it ends its
\* descriptors with a Partial from the tag of the frame to the end of the
\* buffer; a call whose buffer lies inside the frame appends one Partial of the
\* whole buffer; the call whose buffer ends the frame appends one
\* PartialComplete of the whole buffer and leaves the parser with no current
\* message; every descriptor has the tag of the frame and every call returns
\* the length of its buffer.
C29_SplitFrameChain ==
    /\ (Called /\ Call.before.current_msg_type = NoType
           /\ feed.conn.parser.current_msg_type # NoType) =>
          LET head == Call.msgs[Len(Call.msgs)]
          IN /\ head.kind = "Partial"
             /\ head.tag = Call.buffer[head.start + 1]
             /\ head.tag = feed.conn.parser.current_msg_type
             /\ head.end = Len(Call.buffer) - 1
             /\ Call.n = Len(Call.buffer)
    /\ (Called /\ Call.before.current_msg_type # NoType /\ Len(Call.buffer) < Remaining) =>
          /\ Call.msgs = <<Partial(Call.before.current_msg_type, 0, Len(Call.buffer) - 1)>>
          /\ Call.n = Len(Call.buffer)
          /\ feed.conn.parser.current_msg_type = Call.before.current_msg_type
    /\ (Called /\ Call.before.current_msg_type # NoType /\ Len(Call.buffer) = Remaining) =>
          /\ Call.msgs = <<PartialComplete(Call.before.current_msg_type, Len(Call.buffer) - 1)>>
          /\ Call.n = Len(Call.buffer)
          /\ feed.conn.parser = NewParser

\* C24: when the whole of a stream has been read, in chunks of any sizes, the
\* descriptors of the calls describe, chains of partial descriptors taken as
\* one frame each, the frames that one parse of the whole stream describes.
C24_ChunkedAsWhole ==
    (feed.stream # <<>> /\ feed.pos = Len(feed.stream)) =>
       feed.frames = Merge(<<>>, Parse(feed.stream, NewParser, <<>>).msgs)

(***************************************************************************)
(* Properties of as_bytes and parse_startup.                               *)
(***************************************************************************)
\* The bytes of the message are those of a cancel request: 16 bytes with the
\* version of a CancelRequest.
EncodedAsCancel ==
    trip.message.protocol_version = CANCEL_REQUEST_VERSION /\ Len(trip.bytes) = 16

RoundTrips ==
    /\ trip.result.startup = "Message"
    /\ trip.result.message = trip.message
    /\ trip.result.n = Len(trip.bytes)

DeclaredStartupLength == ReadI32(trip.bytes, 0)
DeclaredVersion == ReadI32(trip.bytes, 4)

\* C31: a parse_startup that reports fewer than 8 bytes returns no descriptor;
\* one that returns SSLRequest reports 8 bytes and one that returns
\* CancelRequest reports 16; SSLRequest is returned only for version 80877103
\* with length 8 and CancelRequest only for version 80877102 with length 16.
C31_StartupCounts ==
    trip.parsed =>
       /\ trip.result.n < 8 => trip.result.startup = "None"
       /\ trip.result.startup = "SSLRequest" =>
             /\ trip.result.n = 8
             /\ Len(trip.bytes) >= 8
             /\ DeclaredVersion = SSL_REQUEST_VERSION /\ DeclaredStartupLength = 8
       /\ trip.result.startup = "CancelRequest" =>
             /\ trip.result.n = 16
             /\ Len(trip.bytes) >= 8
             /\ DeclaredVersion = CANCEL_REQUEST_VERSION /\ DeclaredStartupLength = 16

\* The first 8 bytes of a CancelRequest have been parsed as a CancelRequest of
\* 16 bytes.
C31_Witness ==
    /\ trip.parsed /\ trip.result.startup = "CancelRequest"
    /\ Len(trip.bytes) = 8 /\ trip.result.n = 16

(***************************************************************************)
(* Properties of the race of the two reads in the transaction loop.        *)
(***************************************************************************)
IsSuffix(a, b) == Len(a) <= Len(b) /\ a = SubSeq(b, Len(b) - Len(a) + 1, Len(b))

\* The read of `before` was dropped in the step that led to `after`: carried
\* bytes and parser are as they were and no descriptor has been added.
Untouched(before, after) ==
    /\ after.incomplete_buffer = before.incomplete_buffer
    /\ after.parser = before.parser
    /\ IsSuffix(after.msgs, before.msgs)
    /\ after.is_broken = before.is_broken

\* C32: in an iteration of the transaction loop in which the read of one side
\* completes and the session goes on, the other side keeps its carried bytes, its parser state and its
\* descriptors, and no byte is taken from its socket.
C32_Step ==
    \A s \in Sessions :
       (pc[s] = "tx" /\ pc'[s] \in {"tx", "idle"}) =>
          LET c == borrowed[s]
          IN /\ cliPos'[s] # cliPos[s] =>
                   srvPos'[c] = srvPos[c] /\ Untouched(server[c], server'[c])
             /\ srvPos'[c] # srvPos[c] =>
                   cliPos'[s] = cliPos[s] /\ Untouched(client[s], client'[s])

C32_DroppedReadKeepsState == [][C32_Step]_vars

\* In a transaction both sides hold carried bytes: the read that brought the
\* later of the two won against a read that had bytes carried over.
C32_Witness ==
    \E s \in Sessions :
       /\ pc[s] = "tx"
       /\ client[s].incomplete_buffer # <<>>
       /\ server[borrowed[s]].incomplete_buffer # <<>>

(***************************************************************************)
(* Properties of the registry's mutex.                                     *)
(***************************************************************************)
\* C33: get_pool holds the registry's mutex for the lookup and the insert only,
\* not over the awaits that build a pool: a session that is at the lock for one
\* database does not wait while the pool of another database is being built.
C33_MutexOnlyForMap ==
    \A s, t \in Sessions :
       (pc[s] = "get_pool" /\ pc[t] = "build" /\ db[s] # db[t]) => MutexFree

(***************************************************************************)
(* Properties of the carried bytes.                                        *)
(***************************************************************************)
\* C34: after a read_and_parse at most 4 bytes are carried over, and the bytes
\* reported as parsed followed by the bytes carried over are the bytes carried
\* in followed by the bytes read.
C34_CarryBounded ==
    Called =>
       /\ Len(feed.conn.incomplete_buffer) <= 4
       /\ Call.n + Len(feed.conn.incomplete_buffer) = Len(Call.buffer)
       /\ feed.conn.incomplete_buffer = SubSeq(Call.buffer, Call.n + 1, Len(Call.buffer))

\* A call has parsed a frame and carries over 4 bytes.
C34_Witness ==
    /\ Called /\ Call.n > 0
    /\ Len(feed.conn.incomplete_buffer) = 4

(***************************************************************************)
(* Properties of the descriptor queues.                                    *)
(***************************************************************************)
\* C35: a connection whose buffer is about to be filled again has an empty
\* descriptor queue: the client of a session at its idle read or in its
\* transaction loop, a server connection that a session holds, and one that
\* waits idle in the pool for the probe of the next checkout.
C35_QueueEmptyBeforeRefill ==
    /\ \A s \in Sessions : pc[s] \in {"idle", "tx"} => client[s].msgs = <<>>
    /\ \A c \in ConnIds : connState[c] \in {"idle", "held"} => server[c].msgs = <<>>

(***************************************************************************)
(* Properties of the bytes relayed to a client.                            *)
(***************************************************************************)
\* The positions, among the frames connection c has sent, of the frames of
\* which the bytes from..upto of its stream are part.
FramesIn(c, from, upto) ==
    {i \in 1..Len(FramesOf(srvStream[c])) :
        from < i * Len(ReadyForQueryIdle) /\ (i - 1) * Len(ReadyForQueryIdle) < upto}

\* C36: the frames a session reads from its server connection, and relays to
\* its client, answer frames which that same session wrote to the connection.
C36_Step ==
    \A s \in Sessions :
       (pc[s] = "tx" /\ srvPos'[borrowed[s]] > srvPos[borrowed[s]]) =>
          \A i \in FramesIn(borrowed[s], srvPos[borrowed[s]], srvPos'[borrowed[s]]) :
             asked[borrowed[s]][i] = s

C36_OwnAnswersOnly == [][C36_Step]_vars

(***************************************************************************)
(* Properties of the connections a session holds.                          *)
(***************************************************************************)
\* C37: a session holds a server connection only between a checkout and the
\* release that follows it, in the handshake or in a transaction, so that it
\* holds none when it is at a checkout or at its idle read; and a connection
\* that is out of its pool is held by a session, never by a task that has gone
\* on or ended.
C37_OneConnection ==
    /\ \A s \in Sessions : borrowed[s] # 0 => pc[s] \in {"hs_params", "tx"}
    /\ \A c \in ConnIds : connState[c] = "held" => \E s \in Sessions : borrowed[s] = c

\* A session is at the checkout of a later transaction, holding nothing: the
\* one connection of its pool, which it has used, is idle.
C37_Witness ==
    \E s \in Sessions :
       /\ pc[s] = "get" /\ toClient[s] # <<>>
       /\ Capacity(handle[s]) = 1
       /\ \E c \in ConnIds : connState[c] = "idle" /\ connPool[c] = handle[s] /\ srvPos[c] > 0

(***************************************************************************)
(* Properties of short reads at the idle point.                            *)
(***************************************************************************)
\* The bytes the client of session s has sent and the session has not read.
Unread(s) == SubSeq(cliStream[s], cliPos[s] + 1, Len(cliStream[s]))

\* C38: a session at its idle point, between frames, whose client has sent
\* one Query and has not closed, does not end, however few of the bytes of
\* the Query a read brings: it stays at the idle point or goes on to the
\* checkout of a backend.
C38_Step ==
    \A s \in Sessions :
       (pc[s] = "idle" /\ ~cliEof[s] /\ BetweenFrames(client[s]) /\ Unread(s) = Query) =>
          pc'[s] \in {"idle", "get"}

C38_ShortReadAtIdle == [][C38_Step]_vars

(***************************************************************************)
(* A write to the server that timed out inside a transaction.              *)
(***************************************************************************)
\* Session s has read and framed more bytes of its client than its writes
\* have carried to servers: one of its writes ended at its timeout.
WriteCutShort(s) ==
    Len(toServer[s]) < cliPos[s] - Len(client[s].incomplete_buffer)

\* C39: once a write of client bytes to the server connection of an open
\* transaction has timed out, the session writes no more client bytes to that
\* connection, and the connection does not go back to the idle queue of its
\* pool.
C39_Step ==
    \A s \in Sessions :
       (pc[s] = "tx" /\ WriteCutShort(s)) =>
          /\ pc'[s] = "tx" => toServer'[s] = toServer[s]
          /\ connState'[borrowed[s]] # "idle"

C39_TimedOutWriteEndsUse == [][C39_Step]_vars

(***************************************************************************)
(* The wait group: who holds a Worker.                                     *)
(***************************************************************************)
\* The session tasks that have been spawned and have not ended.
Alive == {s \in Sessions : pc[s] \notin {"new", "done"}}

\* C40: the Workers held are those of the session tasks that are alive, and
\* that of the accept loop for as long as main listens: a task that has ended,
\* in whatever way, holds none, so the drain wait can complete exactly when no
\* session task is alive.
C40_WorkersOfLiveTasks ==
    /\ workers \ {Listener} = Alive
    /\ Listener \in workers <=> mainPc = "listen"
    /\ mainPc = "drain" => (AllWorkersDropped <=> Alive = {})

\* The wait has completed after one session had ended by a panic on a protocol
\* violation and another by a failed handshake or an I/O error.
C40_Witness ==
    /\ mainPc = "done" /\ sigTaken <= 1 /\ workers = {}
    /\ \E s, t \in Sessions :
          /\ exit[s] \in {"violation", "panic"}
          /\ exit[t] \in {"handshake", "error"}

====
